---- MODULE Spec2Model ----
(***************************************************************************)
(* A model of bumpversion's version model and file-transformation engine:  *)
(* bump functions (functions.py), version parts, versions, the version     *)
(* config with its parser and serialization chooser (version_part.py) and  *)
(* the configured-file verifier and rewriter (utils.py).                   *)
(*                                                                         *)
(* Strings are sequences of one-character strings, so that formatting,     *)
(* parsing and searching are computed character by character.              *)
(***************************************************************************)
EXTENDS Integers, Sequences, FiniteSets, TLC

(***************************************************************************)
(* Bounds of the model.                                                    *)
(***************************************************************************)
\* numeric part values range over the decimal strings of 0..MaxNum
MaxNum == 1
\* orderings handed to Version.bump have at most MaxOrderLen labels
MaxOrderLen == 3
\* a version config has at most MaxFormats serialization templates
MaxFormats == 3

MaxFiles == 2

(***************************************************************************)
(* Strings.                                                                *)
(***************************************************************************)
\* Python's None; no string equals it, since every character is one letter long
None == <<"<None>">>

Digits == <<"0", "1", "2", "3", "4", "5", "6", "7", "8", "9">>

IsDigit(c) == \E i \in 1..Len(Digits) : Digits[i] = c

DigitVal(c) == (CHOOSE i \in 1..Len(Digits) : Digits[i] = c) - 1

\* Python truthiness of an optional string: None and "" are falsy
Truthy(s) == s # None /\ s # <<>>

\* int(s) for a string of digits
RECURSIVE StrToInt(_)
StrToInt(s) ==
    IF s = <<>> THEN 0
    ELSE 10 * StrToInt(SubSeq(s, 1, Len(s) - 1)) + DigitVal(s[Len(s)])

\* str(n) for n >= 0
RECURSIVE IntToStr(_)
IntToStr(n) ==
    IF n < 10 THEN <<Digits[n + 1]>>
    ELSE IntToStr(n \div 10) \o <<Digits[(n % 10) + 1]>>

\* s.startswith(p, i): p occurs in s at index i (1-based)
OccursAt(s, p, i) ==
    /\ i >= 1
    /\ i + Len(p) - 1 <= Len(s)
    /\ SubSeq(s, i, i + Len(p) - 1) = p

\* p in s
IsSubstring(p, s) == \E i \in 1..(Len(s) + 1) : OccursAt(s, p, i)

RECURSIVE Concat(_)
Concat(ss) == IF ss = <<>> THEN <<>> ELSE Head(ss) \o Concat(Tail(ss))

\* the index of x in the sequence q (0 when absent)
IndexOf(q, x) ==
    IF \E i \in 1..Len(q) : q[i] = x
    THEN CHOOSE i \in 1..Len(q) : q[i] = x /\ \A j \in 1..(i - 1) : q[j] # x
    ELSE 0

InSeq(q, x) == \E i \in 1..Len(q) : q[i] = x

SeqToSet(q) == {q[i] : i \in 1..Len(q)}

(***************************************************************************)
(* functions.py: the bump functions.  A bump returns [ok, val]: the new    *)
(* value, or the exception it raised.                                      *)
(***************************************************************************)
Ok(v) == [ok |-> TRUE, val |-> v]
Raise(e) == [ok |-> FALSE, val |-> e]

\* the index of the first digit of s (0 when s has no digit)
FirstDigitPos(s) ==
    IF \E i \in 1..Len(s) : IsDigit(s[i])
    THEN CHOOSE i \in 1..Len(s) :
            IsDigit(s[i]) /\ \A j \in 1..(i - 1) : ~IsDigit(s[j])
    ELSE 0

\* the index of the last digit of the digit run that starts at i
RunEnd(s, i) ==
    CHOOSE e \in i..Len(s) :
        /\ \A j \in i..e : IsDigit(s[j])
        /\ (e = Len(s) \/ ~IsDigit(s[e + 1]))

\* the end of the text '(.*)' matches from index i on: '.' stops at a newline
DotStarEnd(s, i) ==
    IF \E j \in i..Len(s) : s[j] = "\n"
    THEN (CHOOSE j \in i..Len(s) :
             s[j] = "\n" /\ \A k \in i..(j - 1) : s[k] # "\n") - 1
    ELSE Len(s)

\* FIRST_NUMERIC.search(value).groups(): ([^\d]*)(\d+)(.*)
FIRST_NUMERIC(s) ==
    LET d == FirstDigitPos(s)
        e == RunEnd(s, d)
    IN  [prefix  |-> SubSeq(s, 1, d - 1),
         numeric |-> SubSeq(s, d, e),
         suffix  |-> SubSeq(s, e + 1, DotStarEnd(s, e + 1))]

NumericFunction_bump(value) ==
    IF FirstDigitPos(value) = 0
    THEN Raise("AttributeError")
    ELSE LET m == FIRST_NUMERIC(value)
             bumped_numeric == StrToInt(m.numeric) + 1
         IN  Ok(m.prefix \o IntToStr(bumped_numeric) \o m.suffix)

\* a bump that wraps around from the last value to the first
ValuesFunction_bump_Wraps(values, value) ==
    LET i == IndexOf(values, value)
    IN  IF i = 0 THEN Raise("ValueError: not in list")
        ELSE IF i + 1 > Len(values) THEN Ok(values[1])
        ELSE Ok(values[i + 1])

ValuesFunction_bump(values, value) ==
    LET i == IndexOf(values, value)
    IN  IF i = 0 THEN Raise("ValueError: not in list")
        ELSE IF i + 1 > Len(values) THEN Raise("ValueError: terminal value")
        ELSE Ok(values[i + 1])

(***************************************************************************)
(* version_part.py: part configurations.  A configuration is the record   *)
(* of its function's fields.                                               *)
(***************************************************************************)
\* NumericFunction.__init__: the ValueError of a first_value that holds no
\* digit, or the configuration; first_value defaults to 0 and optional_value
\* is first_value
NumericVersionPartConfiguration(first_value, independent) ==
    IF first_value # None /\ FirstDigitPos(first_value) = 0
    THEN Raise("ValueError: no digit")
    ELSE LET fv == IF first_value = None THEN <<"0">> ELSE first_value
         IN  [function_cls   |-> "NumericFunction",
              values         |-> <<>>,
              first_value    |-> fv,
              optional_value |-> fv,
              independent    |-> independent]

\* the fields ValuesFunction.__init__ sets when its checks pass
ValuesFunctionFields(values, optional_value, first_value, independent) ==
    [function_cls   |-> "ValuesFunction",
     values         |-> values,
     first_value    |-> IF first_value = None THEN values[1] ELSE first_value,
     optional_value |-> IF optional_value = None THEN values[1] ELSE optional_value,
     independent    |-> independent]

\* a constructor that does not check first_value
ValuesFunction_init_NoFirstCheck(values, optional_value, first_value, independent) ==
    IF values = <<>> THEN Raise("ValueError: values empty")
    ELSE IF ~InSeq(values, IF optional_value = None THEN values[1] ELSE optional_value)
    THEN Raise("ValueError: optional value")
    ELSE Ok(ValuesFunctionFields(values, optional_value, first_value, independent))

\* ValuesFunction.__init__: the ValueError of a failed check, or Ok(the
\* configuration)
ValuesFunction_init(values, optional_value, first_value, independent) ==
    IF values = <<>> THEN Raise("ValueError: values empty")
    ELSE IF ~InSeq(values, IF optional_value = None THEN values[1] ELSE optional_value)
    THEN Raise("ValueError: optional value")
    ELSE IF ~InSeq(values, IF first_value = None THEN values[1] ELSE first_value)
    THEN Raise("ValueError: first value")
    ELSE Ok(ValuesFunctionFields(values, optional_value, first_value, independent))

\* ConfiguredVersionPartConfiguration(...): PartConfiguration.__init__ calls
\* ValuesFunction.__init__; the ValueError it raises, or the configuration
ConfiguredVersionPartConfiguration(values, optional_value, first_value, independent) ==
    LET Constructed(r) == IF r.ok THEN r.val ELSE r
    IN  Constructed(ValuesFunction_init(values, optional_value, first_value,
                                        independent))

PartConfiguration_bump(config, value) ==
    IF config.function_cls = "NumericFunction"
    THEN NumericFunction_bump(value)
    ELSE ValuesFunction_bump(config.values, value)

(***************************************************************************)
(* version_part.py: VersionPart, a record [_value, config].                *)
(***************************************************************************)
\* a config argument of None (a record, as every configuration is)
NoConfig ==
    [function_cls   |-> "None",
     values         |-> <<>>,
     first_value    |-> None,
     optional_value |-> None,
     independent    |-> FALSE]

\* VersionPart.__init__: without a config the part is numeric with defaults
VersionPart(value, config) ==
    [_value |-> value,
     config |-> IF config = NoConfig
                THEN NumericVersionPartConfiguration(None, FALSE)
                ELSE config]

\* VersionPart.value: self._value or self.config.optional_value
PartValue(p) == IF Truthy(p._value) THEN p._value ELSE p.config.optional_value

\* VersionPart.copy: a new part built from the stored value alone
VersionPart_copy(p) == VersionPart(p._value, NoConfig)

\* VersionPart.bump: the raised exception, or the bumped part
VersionPart_bump(p) ==
    LET r == PartConfiguration_bump(p.config, PartValue(p))
    IN  IF r.ok THEN Ok(VersionPart(r.val, p.config)) ELSE r

is_optional(p) == PartValue(p) = p.config.optional_value

is_independent(p) == p.config.independent

\* VersionPart.null
VersionPart_null(p) == VersionPart(p.config.first_value, p.config)

(***************************************************************************)
(* version_part.py: Version, a record [keys, _values, original]: keys is   *)
(* the insertion order of the dict _values.                                *)
(***************************************************************************)
Version(keys, values, original) ==
    [keys |-> keys, _values |-> values, original |-> original]

HasPart(version, label) == label \in DOMAIN version._values

\* dict assignment new_values[label] = part
DictSet(d, label, part) ==
    [keys    |-> IF InSeq(d.keys, label) THEN d.keys ELSE Append(d.keys, label),
     _values |-> [k \in (DOMAIN d._values) \cup {label} |->
                     IF k = label THEN part ELSE d._values[k]]]

EmptyDict == [keys |-> <<>>, _values |-> <<>>]

\* the loop of Version.bump from label i of order on: the exception a part's
\* bump raised, or the dict new_values and the flag bumped
RECURSIVE BumpLoop(_, _, _, _, _, _)
BumpLoop(version, part_name, order, i, new_values, bumped) ==
    IF i > Len(order)
    THEN [ok |-> TRUE, new_values |-> new_values, bumped |-> bumped]
    ELSE LET label == order[i]
         IN  IF ~HasPart(version, label)
             THEN BumpLoop(version, part_name, order, i + 1, new_values, bumped)
             ELSE IF label = part_name
             THEN LET r == VersionPart_bump(version._values[label])
                  IN  IF ~r.ok
                      THEN [ok |-> FALSE, val |-> r.val]
                      ELSE BumpLoop(version, part_name, order, i + 1,
                                    DictSet(new_values, label, r.val), TRUE)
             ELSE IF bumped /\ ~is_independent(version._values[label])
             THEN BumpLoop(version, part_name, order, i + 1,
                           DictSet(new_values, label,
                                   VersionPart_null(version._values[label])),
                           bumped)
             ELSE BumpLoop(version, part_name, order, i + 1,
                           DictSet(new_values, label,
                                   VersionPart_copy(version._values[label])),
                           bumped)

\* a bug Version.bump could have: no check that a part was bumped
Version_bump_NoCheck(version, part_name, order) ==
    LET r == BumpLoop(version, part_name, order, 1, EmptyDict, FALSE)
    IN  IF ~r.ok THEN Raise(r.val)
        ELSE Ok(Version(r.new_values.keys, r.new_values._values, None))

\* a bug bump could have: the new parts are stored in the input's own dict
VersionAfterBump_InPlace(version, part_name, order) ==
    LET r == BumpLoop(version, part_name, order, 1,
                      [keys |-> version.keys, _values |-> version._values], FALSE)
    IN  IF ~r.ok THEN version
        ELSE Version(r.new_values.keys, r.new_values._values, version.original)

\* the input version as Version.bump leaves it: the loop assigns to the new
\* dict new_values only, and VersionPart.bump, null and copy build new parts
VersionAfterBump(version, part_name, order) == version

\* a bug bump could have: the parts that the ordering does not name are
\* carried into the result, after the ordered ones
Version_bump_CarriesUnordered(version, part_name, order) ==
    LET r == BumpLoop(version, part_name, order, 1, EmptyDict, FALSE)
        Unordered(label) == ~InSeq(order, label)
    IN  IF ~r.ok THEN Raise(r.val)
        ELSE IF ~r.bumped THEN Raise("InvalidVersionPartException")
        ELSE Ok(Version(r.new_values.keys \o SelectSeq(version.keys, Unordered),
                        [k \in DOMAIN version._values |->
                            IF k \in DOMAIN r.new_values._values
                            THEN r.new_values._values[k]
                            ELSE VersionPart_copy(version._values[k])],
                        None))

\* Version.bump: [ok |-> TRUE, val |-> the new Version], or the exception
Version_bump(version, part_name, order) ==
    LET r == BumpLoop(version, part_name, order, 1, EmptyDict, FALSE)
    IN  IF ~r.ok THEN Raise(r.val)
        ELSE IF ~r.bumped THEN Raise("InvalidVersionPartException")
        ELSE Ok(Version(r.new_values.keys, r.new_values._values, None))

(***************************************************************************)
(* version_part.py: serialization templates.  A template is the sequence   *)
(* string.Formatter().parse yields for it: one [lit, field] per            *)
(* replacement field with the literal text before it, and a last element   *)
(* with no field when literal text follows the last field.                 *)
(***************************************************************************)
NoField == ""

Tok(lit, field) == [lit |-> lit, field |-> field]

\* labels_for_format
RECURSIVE labels_for_format(_)
labels_for_format(serialize_format) ==
    IF serialize_format = <<>> THEN <<>>
    ELSE LET rest == labels_for_format(Tail(serialize_format))
         IN  IF Head(serialize_format).field # NoField
             THEN <<Head(serialize_format).field>> \o rest
             ELSE rest

\* len(list(string.Formatter().parse(serialize_format)))
PartCount(serialize_format) == Len(serialize_format)

(***************************************************************************)
(* version_part.py: VersionConfig, a record [parse_regex,                  *)
(* serialize_formats, part_configs, search, replace].                      *)
(***************************************************************************)
VersionConfig(parse, serialize, search, replace, part_configs) ==
    [parse_regex       |-> parse,
     serialize_formats |-> serialize,
     part_configs      |-> part_configs,
     search            |-> search,
     replace           |-> replace]

\* the default search and replace templates, "{current_version}" and
\* "{new_version}"
DefaultSearch == <<Tok(<<>>, "current_version")>>
DefaultReplace == <<Tok(<<>>, "new_version")>>

\* self.part_configs.get(key)
PartConfigGet(part_configs, key) ==
    IF key \in DOMAIN part_configs THEN part_configs[key] ELSE NoConfig

\* VersionConfig.order
VersionConfig_order(vc) == labels_for_format(vc.serialize_formats[1])

\* the keys of values = context.copy() updated with the version's parts
ValueKeys(version, context) == (DOMAIN context) \cup (DOMAIN version._values)

\* isinstance(values[k], VersionPart): the version's parts shadow the context
IsVersionPart(version, k) == k \in DOMAIN version._values

\* format(values[k]): VersionPart.__format__ gives the part's value
FormatValue(version, context, k) ==
    IF IsVersionPart(version, k) THEN PartValue(version._values[k]) ELSE context[k]

\* serialize_format.format(**values), for a format whose fields all have values
RECURSIVE FormatTemplate(_, _, _)
FormatTemplate(serialize_format, version, context) ==
    IF serialize_format = <<>> THEN <<>>
    ELSE LET t == Head(serialize_format)
         IN  t.lit
             \o (IF t.field = NoField THEN <<>>
                 ELSE FormatValue(version, context, t.field))
             \o FormatTemplate(Tail(serialize_format), version, context)

\* the loop over enumerate(keys): the prefix of keys up to the last part that
\* is not optional
RECURSIVE KeysNeedingRepresentation(_, _, _, _)
KeysNeedingRepresentation(keys, version, i, acc) ==
    IF i > Len(keys) THEN acc
    ELSE IF ~IsVersionPart(version, keys[i])
    THEN KeysNeedingRepresentation(keys, version, i + 1, acc)
    ELSE IF ~is_optional(version._values[keys[i]])
    THEN KeysNeedingRepresentation(keys, version, i + 1,
                                   SeqToSet(SubSeq(keys, 1, i)))
    ELSE KeysNeedingRepresentation(keys, version, i + 1, acc)

\* VersionConfig._serialize
VersionConfig_serialize_(vc, version, serialize_format, context, raise_if_incomplete) ==
    LET labels == SeqToSet(labels_for_format(serialize_format))
        keys == VersionConfig_order(vc)
    IN  IF ~(labels \subseteq ValueKeys(version, context))
        THEN Raise("MissingValueForSerializationException")
        ELSE IF ~(SeqToSet(keys) \subseteq ValueKeys(version, context))
        THEN Raise("KeyError")
        ELSE LET keys_needing_representation ==
                     KeysNeedingRepresentation(keys, version, 1, {})
                 required_by_format == labels
             IN  IF raise_if_incomplete
                    /\ ~(keys_needing_representation \subseteq required_by_format)
                 THEN Raise("IncompleteVersionRepresentationException")
                 ELSE Ok(FormatTemplate(serialize_format, version, context))

NoneChosen == <<>>

\* a bug the chooser could have: a later usable template replaces the chosen
\* one when it is longer
RECURSIVE ChooseLoop_PreferLonger(_, _, _, _, _)
ChooseLoop_PreferLonger(vc, version, context, i, chosen) ==
    IF i > Len(vc.serialize_formats) THEN Ok(chosen)
    ELSE LET serialize_format == vc.serialize_formats[i]
             r == VersionConfig_serialize_(vc, version, serialize_format, context, TRUE)
         IN  IF r.ok
             THEN IF chosen = NoneChosen
                     \/ PartCount(chosen) < PartCount(serialize_format)
                  THEN ChooseLoop_PreferLonger(vc, version, context, i + 1, serialize_format)
                  ELSE ChooseLoop_PreferLonger(vc, version, context, i + 1, chosen)
             ELSE IF r.val = "IncompleteVersionRepresentationException"
             THEN IF chosen = NoneChosen
                  THEN ChooseLoop_PreferLonger(vc, version, context, i + 1, serialize_format)
                  ELSE ChooseLoop_PreferLonger(vc, version, context, i + 1, chosen)
             ELSE Raise(r.val)

\* a bug the chooser could have: an incomplete template replaces the chosen one
RECURSIVE ChooseLoop_LastIncomplete(_, _, _, _, _)
ChooseLoop_LastIncomplete(vc, version, context, i, chosen) ==
    IF i > Len(vc.serialize_formats) THEN Ok(chosen)
    ELSE LET serialize_format == vc.serialize_formats[i]
             r == VersionConfig_serialize_(vc, version, serialize_format, context, TRUE)
         IN  IF r.ok
             THEN IF chosen = NoneChosen
                     \/ PartCount(chosen) > PartCount(serialize_format)
                  THEN ChooseLoop_LastIncomplete(vc, version, context, i + 1, serialize_format)
                  ELSE ChooseLoop_LastIncomplete(vc, version, context, i + 1, chosen)
             ELSE IF r.val = "IncompleteVersionRepresentationException"
             THEN ChooseLoop_LastIncomplete(vc, version, context, i + 1, serialize_format)
             ELSE Raise(r.val)

\* a bug the chooser could have: a template with a missing value is taken
\* like an incomplete one
RECURSIVE ChooseLoop_MissingAsIncomplete(_, _, _, _, _)
ChooseLoop_MissingAsIncomplete(vc, version, context, i, chosen) ==
    IF i > Len(vc.serialize_formats) THEN Ok(chosen)
    ELSE LET serialize_format == vc.serialize_formats[i]
             r == VersionConfig_serialize_(vc, version, serialize_format, context, TRUE)
         IN  IF r.ok
             THEN IF chosen = NoneChosen
                     \/ PartCount(chosen) > PartCount(serialize_format)
                  THEN ChooseLoop_MissingAsIncomplete(vc, version, context, i + 1, serialize_format)
                  ELSE ChooseLoop_MissingAsIncomplete(vc, version, context, i + 1, chosen)
             ELSE IF chosen = NoneChosen
                  THEN ChooseLoop_MissingAsIncomplete(vc, version, context, i + 1, serialize_format)
                  ELSE ChooseLoop_MissingAsIncomplete(vc, version, context, i + 1, chosen)

\* a bug the chooser could have: a template with a missing value is skipped
RECURSIVE ChooseLoop_SkipMissing(_, _, _, _, _)
ChooseLoop_SkipMissing(vc, version, context, i, chosen) ==
    IF i > Len(vc.serialize_formats) THEN Ok(chosen)
    ELSE LET serialize_format == vc.serialize_formats[i]
             r == VersionConfig_serialize_(vc, version, serialize_format, context, TRUE)
         IN  IF r.ok
             THEN IF chosen = NoneChosen
                     \/ PartCount(chosen) > PartCount(serialize_format)
                  THEN ChooseLoop_SkipMissing(vc, version, context, i + 1, serialize_format)
                  ELSE ChooseLoop_SkipMissing(vc, version, context, i + 1, chosen)
             ELSE IF r.val = "IncompleteVersionRepresentationException"
             THEN IF chosen = NoneChosen
                  THEN ChooseLoop_SkipMissing(vc, version, context, i + 1, serialize_format)
                  ELSE ChooseLoop_SkipMissing(vc, version, context, i + 1, chosen)
             ELSE IF r.val = "MissingValueForSerializationException"
             THEN ChooseLoop_SkipMissing(vc, version, context, i + 1, chosen)
             ELSE Raise(r.val)

\* the loop of _choose_serialize_format from template i on: the exception
\* raised, or the template chosen so far
RECURSIVE ChooseLoop(_, _, _, _, _)
ChooseLoop(vc, version, context, i, chosen) ==
    IF i > Len(vc.serialize_formats) THEN Ok(chosen)
    ELSE LET serialize_format == vc.serialize_formats[i]
             r == VersionConfig_serialize_(vc, version, serialize_format, context, TRUE)
         IN  IF r.ok
             THEN IF chosen = NoneChosen
                     \/ PartCount(chosen) > PartCount(serialize_format)
                  THEN ChooseLoop(vc, version, context, i + 1, serialize_format)
                  ELSE ChooseLoop(vc, version, context, i + 1, chosen)
             ELSE IF r.val = "IncompleteVersionRepresentationException"
             THEN IF chosen = NoneChosen
                  THEN ChooseLoop(vc, version, context, i + 1, serialize_format)
                  ELSE ChooseLoop(vc, version, context, i + 1, chosen)
             ELSE Raise(r.val)

\* VersionConfig._choose_serialize_format
VersionConfig_choose_serialize_format(vc, version, context) ==
    LET r == ChooseLoop(vc, version, context, 1, NoneChosen)
    IN  IF r.ok /\ r.val = NoneChosen
        THEN Raise("KeyError: Did not find suitable serialization format")
        ELSE r

\* a serialize that takes the first template instead of the chosen one
VersionConfig_serialize_FirstTemplate(vc, version, context) ==
    VersionConfig_serialize_(vc, version, vc.serialize_formats[1], context, FALSE)

\* VersionConfig.serialize
VersionConfig_serialize(vc, version, context) ==
    LET c == VersionConfig_choose_serialize_format(vc, version, context)
    IN  IF ~c.ok THEN c
        ELSE VersionConfig_serialize_(vc, version, c.val, context, FALSE)

(***************************************************************************)
(* version_part.py: VersionConfig.parse.  The parse regex is a sequence of *)
(* named groups [sep, name, cls, optional]: the literal text sep followed  *)
(* by the group (?P<name>cls+); an optional group stands, with its sep,    *)
(* inside ( ... )?.                                                        *)
(***************************************************************************)
Group(sep, name, cls, optional) ==
    [sep |-> sep, name |-> name, cls |-> cls, optional |-> optional]

Lower == <<"a", "b", "c", "d", "e", "f", "g", "h", "i", "j", "k", "l", "m",
           "n", "o", "p", "q", "r", "s", "t", "u", "v", "w", "x", "y", "z">>

\* c matches the character class cls: \d or [a-z]
InClass(cls, c) == IF cls = "\\d" THEN IsDigit(c) ELSE InSeq(Lower, c)

\* the length of the longest run of cls characters of s from index i on
RECURSIVE RunLen(_, _, _)
RunLen(cls, s, i) ==
    IF i > Len(s) \/ ~InClass(cls, s[i]) THEN 0 ELSE 1 + RunLen(cls, s, i + 1)

NoMatch == [ok |-> FALSE, groups |-> <<>>]

\* the regex engine matching groups gi.. of the regex at index pos of s, with
\* its backtracking: a group takes the longest run first, then shorter ones,
\* and an optional group is skipped last.  MatchRun tries runs of n characters
\* and fewer for group gi.
RECURSIVE MatchFrom(_, _, _, _), MatchRun(_, _, _, _, _)
MatchFrom(regex, s, pos, gi) ==
    IF gi > Len(regex) THEN [ok |-> TRUE, groups |-> <<>>]
    ELSE LET g == regex[gi]
             n == IF OccursAt(s, g.sep, pos)
                  THEN RunLen(g.cls, s, pos + Len(g.sep))
                  ELSE 0
         IN  MatchRun(regex, s, pos, gi, n)

MatchRun(regex, s, pos, gi, n) ==
    LET g == regex[gi]
        start == pos + Len(g.sep)
    IN  IF n = 0
        THEN IF g.optional
             THEN LET rest == MatchFrom(regex, s, pos, gi + 1)
                  IN  IF rest.ok
                      THEN [ok |-> TRUE, groups |-> (g.name :> None) @@ rest.groups]
                      ELSE NoMatch
             ELSE NoMatch
        ELSE LET rest == MatchFrom(regex, s, start + n, gi + 1)
             IN  IF rest.ok
                 THEN [ok |-> TRUE,
                       groups |-> (g.name :> SubSeq(s, start, start + n - 1))
                                  @@ rest.groups]
                 ELSE MatchRun(regex, s, pos, gi, n - 1)

\* self.parse_regex.search(version_string): the match at the leftmost index
\* that has one
RECURSIVE RegexSearch(_, _, _)
RegexSearch(regex, s, pos) ==
    IF pos > Len(s) + 1 THEN NoMatch
    ELSE LET m == MatchFrom(regex, s, pos, 1)
         IN  IF m.ok THEN m ELSE RegexSearch(regex, s, pos + 1)

\* the group names of the regex, in order
GroupNames(regex) == [i \in 1..Len(regex) |-> regex[i].name]

\* VersionConfig.parse: Ok(the Version), or Raise("None") for the unparsed
\* sentinel None
VersionConfig_parse(vc, version_string) ==
    IF ~Truthy(version_string) THEN Raise("None")
    ELSE LET match == RegexSearch(vc.parse_regex, version_string, 1)
         IN  IF ~match.ok THEN Raise("None")
             ELSE Ok(Version(GroupNames(vc.parse_regex),
                             [key \in DOMAIN match.groups |->
                                 VersionPart(match.groups[key],
                                             PartConfigGet(vc.part_configs, key))],
                             version_string))

(***************************************************************************)
(* utils.py: ConfiguredFile, a record [path, _versionconfig].  The disk    *)
(* maps each path to the characters of the file, or to Missing.  A call    *)
(* that takes the context dict returns the dict as it leaves it.           *)
(***************************************************************************)
Missing == <<"<missing>">>

ConfiguredFile(path, versionconfig) ==
    [path |-> path, _versionconfig |-> versionconfig]

\* text-mode reading with newline=None: "\r\n" and "\r" are read as "\n"
RECURSIVE TranslateNewlines(_)
TranslateNewlines(raw) ==
    IF raw = <<>> THEN <<>>
    ELSE IF raw[1] = "\r"
    THEN <<"\n">> \o TranslateNewlines(IF Len(raw) > 1 /\ raw[2] = "\n"
                                       THEN SubSeq(raw, 3, Len(raw))
                                       ELSE Tail(raw))
    ELSE <<raw[1]>> \o TranslateNewlines(Tail(raw))

\* f.newlines after f.read(): the separators seen, in the order the tuple
\* lists them ("\r", "\n", "\r\n"); the empty sequence stands for None and a
\* sequence of one separator for that string
FileNewlines(raw) ==
    LET cr == \E i \in 1..Len(raw) :
                  raw[i] = "\r" /\ (i = Len(raw) \/ raw[i + 1] # "\n")
        lf == \E i \in 1..Len(raw) :
                  raw[i] = "\n" /\ (i = 1 \/ raw[i - 1] # "\r")
        crlf == \E i \in 1..(Len(raw) - 1) : raw[i] = "\r" /\ raw[i + 1] = "\n"
    IN  (IF cr THEN <<(<<"\r">>)>> ELSE <<>>)
        \o (IF lf THEN <<(<<"\n">>)>> ELSE <<>>)
        \o (IF crlf THEN <<(<<"\r", "\n">>)>> ELSE <<>>)

\* a bug replace could have: the separator of the file is not remembered
Linesep_NotRemembered(file_new_lines) == None

\* linesep = file_new_lines[0] if isinstance(file_new_lines, tuple)
\*           else file_new_lines
Linesep(file_new_lines) ==
    IF file_new_lines = <<>> THEN None ELSE file_new_lines[1]

\* text-mode writing with newline=linesep: None writes "\n" as os.linesep
\* (which is "\n"), "\n" writes it as it is, another separator replaces it
RECURSIVE WriteText(_, _)
WriteText(text, linesep) ==
    IF text = <<>> THEN <<>>
    ELSE IF text[1] = "\n" /\ linesep # None
    THEN linesep \o WriteText(Tail(text), linesep)
    ELSE <<text[1]>> \o WriteText(Tail(text), linesep)

\* str.splitlines(): the lines of s without their ends, s[i..] still to read
\* and cur the line being read
RECURSIVE SplitLinesFrom(_, _, _)
SplitLinesFrom(s, i, cur) ==
    IF i > Len(s) THEN (IF cur = <<>> THEN <<>> ELSE <<cur>>)
    ELSE IF s[i] = "\n" THEN <<cur>> \o SplitLinesFrom(s, i + 1, <<>>)
    ELSE IF s[i] = "\r"
    THEN <<cur>> \o SplitLinesFrom(s, IF i < Len(s) /\ s[i + 1] = "\n"
                                      THEN i + 2 ELSE i + 1, <<>>)
    ELSE SplitLinesFrom(s, i + 1, cur \o <<s[i]>>)

splitlines(s) == SplitLinesFrom(s, 1, <<>>)

\* f.readlines(): the lines of the text, each with its "\n"
RECURSIVE ReadLinesFrom(_, _, _)
ReadLinesFrom(text, i, cur) ==
    IF i > Len(text) THEN (IF cur = <<>> THEN <<>> ELSE <<cur>>)
    ELSE IF text[i] = "\n"
    THEN <<cur \o <<"\n">> >> \o ReadLinesFrom(text, i + 1, <<>>)
    ELSE ReadLinesFrom(text, i + 1, cur \o <<text[i]>>)

readlines(text) == ReadLinesFrom(text, 1, <<>>)

\* line.rstrip("\n")
RECURSIVE RStripNewline(_)
RStripNewline(line) ==
    IF line # <<>> /\ line[Len(line)] = "\n"
    THEN RStripNewline(SubSeq(line, 1, Len(line) - 1))
    ELSE line

\* q[1:-1]
Interior(q) == SubSeq(q, 2, Len(q) - 1)

\* the loop of contains over the lines from the i-th on, lookbehind being the
\* window kept so far
RECURSIVE ContainsLoop(_, _, _, _)
ContainsLoop(lines, search_lines, i, lookbehind) ==
    IF i > Len(lines) THEN FALSE
    ELSE LET appended == Append(lookbehind, RStripNewline(lines[i]))
             window == IF Len(appended) > Len(search_lines)
                       THEN Tail(appended) ELSE appended
         IN  IF /\ IsSubstring(search_lines[1], window[1])
                /\ IsSubstring(search_lines[Len(search_lines)], window[Len(window)])
                /\ Interior(search_lines) = Interior(window)
             THEN TRUE
             ELSE ContainsLoop(lines, search_lines, i + 1, window)

\* a bug contains could have: a file opened for reading is created when it
\* does not exist
DiskAfterRead_Creates(disk, path) ==
    [disk EXCEPT ![path] = IF @ = Missing THEN <<>> ELSE @]

\* the disk after open(path, "rt") and the reading of the file: a file opened
\* for reading is neither created nor changed
DiskAfterRead(disk, path) == disk

\* a bug contains could have: a file that cannot be opened contains nothing
ConfiguredFile_contains_MissingIsFalse(disk, self, search) ==
    IF ~Truthy(search) THEN Ok(FALSE)
    ELSE IF disk[self.path] = Missing THEN Ok(FALSE)
    ELSE Ok(ContainsLoop(readlines(TranslateNewlines(disk[self.path])),
                         splitlines(search), 1, <<>>))

\* ConfiguredFile.contains: Ok(the boolean), or the IOError of open
ConfiguredFile_contains(disk, self, search) ==
    IF ~Truthy(search) THEN Ok(FALSE)
    ELSE IF disk[self.path] = Missing THEN Raise("IOError")
    ELSE Ok(ContainsLoop(readlines(TranslateNewlines(disk[self.path])),
                         splitlines(search), 1, <<>>))

\* context[key] = value
ContextSet(context, key, value) ==
    [k \in (DOMAIN context) \cup {key} |-> IF k = key THEN value ELSE context[k]]

\* template.format(**context): Ok(the text), or the KeyError of a field the
\* context does not have
RECURSIVE FormatContext(_, _)
FormatContext(template, context) ==
    IF template = <<>> THEN Ok(<<>>)
    ELSE LET t == Head(template)
             rest == FormatContext(Tail(template), context)
         IN  IF t.field # NoField /\ t.field \notin DOMAIN context
             THEN Raise("KeyError")
             ELSE IF ~rest.ok THEN rest
             ELSE Ok(t.lit
                     \o (IF t.field = NoField THEN <<>> ELSE context[t.field])
                     \o rest.val)

\* what a call that takes the context returns: normally or with an
\* exception, and the context as the call leaves it
Returned(context) == [ok |-> TRUE, val |-> "return", context |-> context]
Raised(e, context) == [ok |-> FALSE, val |-> e, context |-> context]

\* a bug should_contain_version could have: it returns normally whatever the
\* file holds
ConfiguredFile_should_contain_version_NoRaise(disk, self, version, context) ==
    LET Serialized(current) ==
            IF ~current.ok THEN Raised(current.val, context)
            ELSE Returned(ContextSet(context, "current_version", current.val))
    IN  Serialized(VersionConfig_serialize(self._versionconfig, version, context))

\* a bug should_contain_version could have: the original version is tried
\* whether or not the search template is customized
ConfiguredFile_should_contain_version_AlwaysFallback(disk, self, version, context) ==
    LET Fallback(context1, original) ==
            IF ~original.ok THEN Raised(original.val, context1)
            ELSE IF original.val THEN Returned(context1)
            ELSE Raised("VersionNotFoundException", context1)
        Searched(context1, found) ==
            IF ~found.ok THEN Raised(found.val, context1)
            ELSE IF found.val THEN Returned(context1)
            ELSE LET search_pattern_is_default ==
                         self._versionconfig.search = DefaultSearch
                 IN  IF FALSE
                     THEN Raised("VersionNotFoundException", context1)
                     ELSE Fallback(context1,
                              ConfiguredFile_contains(disk, self, version.original))
        Expanded(context1, search_expression) ==
            IF ~search_expression.ok THEN Raised(search_expression.val, context1)
            ELSE Searched(context1,
                     ConfiguredFile_contains(disk, self, search_expression.val))
        WithContext(context1) ==
            Expanded(context1, FormatContext(self._versionconfig.search, context1))
        Serialized(current) ==
            IF ~current.ok THEN Raised(current.val, context)
            ELSE WithContext(ContextSet(context, "current_version", current.val))
    IN  Serialized(VersionConfig_serialize(self._versionconfig, version, context))

\* ConfiguredFile.should_contain_version.  Each value the method computes is
\* bound once, as the argument of a local operator.
ConfiguredFile_should_contain_version(disk, self, version, context) ==
    LET Fallback(context1, original) ==
            IF ~original.ok THEN Raised(original.val, context1)
            ELSE IF original.val THEN Returned(context1)
            ELSE Raised("VersionNotFoundException", context1)
        Searched(context1, found) ==
            IF ~found.ok THEN Raised(found.val, context1)
            ELSE IF found.val THEN Returned(context1)
            ELSE LET search_pattern_is_default ==
                         self._versionconfig.search = DefaultSearch
                 IN  IF ~search_pattern_is_default
                     THEN Raised("VersionNotFoundException", context1)
                     ELSE Fallback(context1,
                              ConfiguredFile_contains(disk, self, version.original))
        Expanded(context1, search_expression) ==
            IF ~search_expression.ok THEN Raised(search_expression.val, context1)
            ELSE Searched(context1,
                     ConfiguredFile_contains(disk, self, search_expression.val))
        WithContext(context1) ==
            Expanded(context1, FormatContext(self._versionconfig.search, context1))
        Serialized(current) ==
            IF ~current.ok THEN Raised(current.val, context)
            ELSE WithContext(ContextSet(context, "current_version", current.val))
    IN  Serialized(VersionConfig_serialize(self._versionconfig, version, context))

\* str.replace(old, new) from index i on; an empty old matches before every
\* character and at the end
RECURSIVE StrReplaceFrom(_, _, _, _)
StrReplaceFrom(s, old, new, i) ==
    IF i > Len(s) THEN (IF old = <<>> THEN new ELSE <<>>)
    ELSE IF old = <<>>
    THEN new \o <<s[i]>> \o StrReplaceFrom(s, old, new, i + 1)
    ELSE IF OccursAt(s, old, i)
    THEN new \o StrReplaceFrom(s, old, new, i + Len(old))
    ELSE <<s[i]>> \o StrReplaceFrom(s, old, new, i + 1)

\* a str.replace that replaces nothing
StrReplace_Nothing(s, old, new) == s

StrReplace(s, old, new) == StrReplaceFrom(s, old, new, 1)

\* \s of a str pattern, on the characters a text can hold
IsSpace(c) == c \in {" ", "\t", "\n"}

\* the end of the run of \s* from index i
RECURSIVE SkipSpace(_, _)
SkipSpace(s, i) == IF i <= Len(s) /\ IsSpace(s[i]) THEN SkipSpace(s, i + 1) ELSE i

\* search_for read as a regex matches s at index i: "." is any character but
\* "\n", the digits, letters, "-", "=", " " and quotes stand for themselves
PatternAt(s, pattern, i) ==
    /\ i + Len(pattern) - 1 <= Len(s)
    /\ \A j \in 1..Len(pattern) :
          IF pattern[j] = "." THEN s[i + j - 1] # "\n"
          ELSE s[i + j - 1] = pattern[j]

\* ^(version\s*=\s*)(?P<quote>['"])(search_for)(?P=quote) matched at index i,
\* re.M: [ok, quote: the index of the opening quote, end: the index after
\* the match]
VersionKeyword == <<"v", "e", "r", "s", "i", "o", "n">>

PyprojectMatch(s, search_for, i) ==
    LET eq == SkipSpace(s, i + Len(VersionKeyword))
        quote == SkipSpace(s, eq + 1)
        close == quote + 1 + Len(search_for)
    IN  IF /\ (i = 1 \/ s[i - 1] = "\n")
           /\ OccursAt(s, VersionKeyword, i)
           /\ eq <= Len(s) /\ s[eq] = "="
           /\ quote <= Len(s) /\ s[quote] \in {"'", "\""}
           /\ PatternAt(s, search_for, quote + 1)
           /\ close <= Len(s) /\ s[close] = s[quote]
        THEN [ok |-> TRUE, quote |-> quote, end |-> close + 1]
        ELSE [ok |-> FALSE, quote |-> 0, end |-> 0]

\* a bug replace could have: pyproject.toml rewritten as any other file
PyprojectSubFrom_Plain(s, search_for, replace_with, i) ==
    StrReplaceFrom(s, search_for, replace_with, i)

\* re.sub of that pattern by \1\g<quote>replace_with\g<quote>, from index i on
RECURSIVE PyprojectSubFrom(_, _, _, _)
PyprojectSubFrom(s, search_for, replace_with, i) ==
    IF i > Len(s) THEN <<>>
    ELSE LET m == PyprojectMatch(s, search_for, i)
         IN  IF m.ok
             THEN SubSeq(s, i, m.quote) \o replace_with \o <<s[m.quote]>>
                  \o PyprojectSubFrom(s, search_for, replace_with, m.end)
             ELSE <<s[i]>> \o PyprojectSubFrom(s, search_for, replace_with, i + 1)

\* Path(self.path).name: the paths of the model have no directory
PathName(path) == path

\* what replace returns: normally or with an exception, the context and the
\* disk as it leaves them
Replaced(context, disk) ==
    [ok |-> TRUE, val |-> "return", context |-> context, disk |-> disk]
\* a bug replace could have: the file is opened for writing before the
\* expressions are formatted, so a replace that raises leaves files empty
ReplaceRaised_Truncated(e, context, disk) ==
    [ok |-> FALSE, val |-> e, context |-> context,
     disk |-> [p \in DOMAIN disk |-> IF disk[p] = Missing THEN Missing ELSE <<>>]]
ReplaceRaised(e, context, disk) ==
    [ok |-> FALSE, val |-> e, context |-> context, disk |-> disk]

\* a bug replace could have: no replacement of the original version when
\* the search expression changes nothing
ConfiguredFile_replace_NoFallback(disk, self, current_version, new_version, context, dry_run) ==
    LET file_new_lines == FileNewlines(disk[self.path])
        Written(context2, file_content_after) ==
            IF dry_run THEN Replaced(context2, disk)
            ELSE Replaced(context2,
                     [disk EXCEPT ![self.path] =
                         WriteText(file_content_after, Linesep(file_new_lines))])
        Substituted(context2, file_content_before, replace_with, substituted) ==
            IF file_content_before # substituted
            THEN Written(context2, substituted)
            ELSE IF current_version.original = None
            THEN ReplaceRaised("TypeError", context2, disk)
            ELSE Written(context2, file_content_before)
        Expanded(context2, file_content_before, search_for, replace_with) ==
            IF ~search_for.ok THEN ReplaceRaised(search_for.val, context2, disk)
            ELSE IF ~replace_with.ok
            THEN ReplaceRaised(replace_with.val, context2, disk)
            ELSE Substituted(context2, file_content_before, replace_with.val,
                     IF PathName(self.path) = "pyproject.toml"
                     THEN PyprojectSubFrom(file_content_before, search_for.val,
                                           replace_with.val, 1)
                     ELSE StrReplace(file_content_before, search_for.val,
                                     replace_with.val))
        WithContext(context2) ==
            Expanded(context2, TranslateNewlines(disk[self.path]),
                     FormatContext(self._versionconfig.search, context2),
                     FormatContext(self._versionconfig.replace, context2))
        SerializedNew(context1, new) ==
            IF ~new.ok THEN ReplaceRaised(new.val, context1, disk)
            ELSE WithContext(ContextSet(context1, "new_version", new.val))
        WithCurrent(context1) ==
            SerializedNew(context1,
                VersionConfig_serialize(self._versionconfig, new_version, context1))
        SerializedCurrent(current) ==
            IF ~current.ok THEN ReplaceRaised(current.val, context, disk)
            ELSE WithCurrent(ContextSet(context, "current_version", current.val))
    IN  IF disk[self.path] = Missing THEN ReplaceRaised("IOError", context, disk)
        ELSE SerializedCurrent(
                 VersionConfig_serialize(self._versionconfig, current_version,
                                         context))

\* a bug replace could have: the file is written in a dry run too
ConfiguredFile_replace_DryRunWrites(disk, self, current_version, new_version, context, dry_run) ==
    LET file_new_lines == FileNewlines(disk[self.path])
        Written(context2, file_content_after) ==
            IF FALSE THEN Replaced(context2, disk)
            ELSE Replaced(context2,
                     [disk EXCEPT ![self.path] =
                         WriteText(file_content_after, Linesep(file_new_lines))])
        Substituted(context2, file_content_before, replace_with, substituted) ==
            IF file_content_before # substituted
            THEN Written(context2, substituted)
            ELSE IF current_version.original = None
            THEN ReplaceRaised("TypeError", context2, disk)
            ELSE Written(context2,
                     StrReplace(file_content_before, current_version.original,
                                replace_with))
        Expanded(context2, file_content_before, search_for, replace_with) ==
            IF ~search_for.ok THEN ReplaceRaised(search_for.val, context2, disk)
            ELSE IF ~replace_with.ok
            THEN ReplaceRaised(replace_with.val, context2, disk)
            ELSE Substituted(context2, file_content_before, replace_with.val,
                     IF PathName(self.path) = "pyproject.toml"
                     THEN PyprojectSubFrom(file_content_before, search_for.val,
                                           replace_with.val, 1)
                     ELSE StrReplace(file_content_before, search_for.val,
                                     replace_with.val))
        WithContext(context2) ==
            Expanded(context2, TranslateNewlines(disk[self.path]),
                     FormatContext(self._versionconfig.search, context2),
                     FormatContext(self._versionconfig.replace, context2))
        SerializedNew(context1, new) ==
            IF ~new.ok THEN ReplaceRaised(new.val, context1, disk)
            ELSE WithContext(ContextSet(context1, "new_version", new.val))
        WithCurrent(context1) ==
            SerializedNew(context1,
                VersionConfig_serialize(self._versionconfig, new_version, context1))
        SerializedCurrent(current) ==
            IF ~current.ok THEN ReplaceRaised(current.val, context, disk)
            ELSE WithCurrent(ContextSet(context, "current_version", current.val))
    IN  IF disk[self.path] = Missing THEN ReplaceRaised("IOError", context, disk)
        ELSE SerializedCurrent(
                 VersionConfig_serialize(self._versionconfig, current_version,
                                         context))

\* ConfiguredFile.replace.  Each value the method computes is bound once, as
\* the argument of a local operator.
ConfiguredFile_replace(disk, self, current_version, new_version, context, dry_run) ==
    LET file_new_lines == FileNewlines(disk[self.path])
        Written(context2, file_content_after) ==
            IF dry_run THEN Replaced(context2, disk)
            ELSE Replaced(context2,
                     [disk EXCEPT ![self.path] =
                         WriteText(file_content_after, Linesep(file_new_lines))])
        Substituted(context2, file_content_before, replace_with, substituted) ==
            IF file_content_before # substituted
            THEN Written(context2, substituted)
            ELSE IF current_version.original = None
            THEN ReplaceRaised("TypeError", context2, disk)
            ELSE Written(context2,
                     StrReplace(file_content_before, current_version.original,
                                replace_with))
        Expanded(context2, file_content_before, search_for, replace_with) ==
            IF ~search_for.ok THEN ReplaceRaised(search_for.val, context2, disk)
            ELSE IF ~replace_with.ok
            THEN ReplaceRaised(replace_with.val, context2, disk)
            ELSE Substituted(context2, file_content_before, replace_with.val,
                     IF PathName(self.path) = "pyproject.toml"
                     THEN PyprojectSubFrom(file_content_before, search_for.val,
                                           replace_with.val, 1)
                     ELSE StrReplace(file_content_before, search_for.val,
                                     replace_with.val))
        WithContext(context2) ==
            Expanded(context2, TranslateNewlines(disk[self.path]),
                     FormatContext(self._versionconfig.search, context2),
                     FormatContext(self._versionconfig.replace, context2))
        SerializedNew(context1, new) ==
            IF ~new.ok THEN ReplaceRaised(new.val, context1, disk)
            ELSE WithContext(ContextSet(context1, "new_version", new.val))
        WithCurrent(context1) ==
            SerializedNew(context1,
                VersionConfig_serialize(self._versionconfig, new_version, context1))
        SerializedCurrent(current) ==
            IF ~current.ok THEN ReplaceRaised(current.val, context, disk)
            ELSE WithCurrent(ContextSet(context, "current_version", current.val))
    IN  IF disk[self.path] = Missing THEN ReplaceRaised("IOError", context, disk)
        ELSE SerializedCurrent(
                 VersionConfig_serialize(self._versionconfig, current_version,
                                         context))

(***************************************************************************)
(* vcs.py: BaseVCS.commit.  The temporary directory is the set of the      *)
(* names of the files in it.  commit does not run in one piece: it blocks  *)
(* in subprocess.check_output while the VCS command, another process that  *)
(* is handed the name of the temporary file, runs.  check_output raises    *)
(* OSError (the command could not be started), or the command starts and   *)
(* later ends: check_output returns, or raises CalledProcessError (the     *)
(* command failed).                                                        *)
(***************************************************************************)
TempNames == {"tmp1", "tmp2"}

\* the unique name NamedTemporaryFile gives the file it creates
NewTempName(tmpfiles) == CHOOSE name \in TempNames : name \notin tmpfiles

\* a character str.encode("utf-8") cannot encode (a lone surrogate)
Surrogate == "<surrogate>"

\* message.encode("utf-8"): a message that is not a str has no encode
Encode(message) ==
    IF message = None THEN Raise("AttributeError")
    ELSE IF \E i \in 1..Len(message) : message[i] = Surrogate
    THEN Raise("UnicodeEncodeError")
    ELSE Ok(message)

COMMIT_COMMAND == <<"git", "commit", "-F">>

\* what commit returns: normally or with an exception, the temporary files
\* it leaves, the name of the file it created and the command it ran
Committed(ok, val, tmpfiles, name, cmd) ==
    [ok |-> ok, val |-> val, tmpfiles |-> tmpfiles, name |-> name, cmd |-> cmd]

(***************************************************************************)
(* The state.                                                              *)
(*   b_*: one call of Version.bump: its arguments and what it returned.    *)
(*   s_*: one serialization: the version config, the version (parsed, or  *)
(*        parsed and bumped) and the context, then the template chosen,    *)
(*        the serialized string and the version parsed back from it.       *)
(*   r_*: one run: the files listed, the version config, the part to bump  *)
(*        and the dry-run flag; the disk and the current_version of the    *)
(*        configuration file, now and before the run; the current and the  *)
(*        new version and the context; the phase of the run, the index of  *)
(*        the file it is at, the exception that ended it and the number    *)
(*        of files verified.                                               *)
(*   f_*: one call of a part configuration's bump: the configuration, the  *)
(*        value passed and what the call returned.                         *)
(*   u_*: one call of a method of a configured file: the file, the disk    *)
(*        now and before the call, the arguments (a search expression,     *)
(*        the current and the new version, the context, the dry-run flag), *)
(*        the method called and what it returned.                          *)
(*   c_*: one call of BaseVCS.commit: the temporary files that exist, the  *)
(*        message, the context, the extra arguments, how the VCS command   *)
(*        ended, what the call returned, where the call is, the name of    *)
(*        the file it created, the command line it ran and the temporary   *)
(*        files the command saw when it started.                           *)
(*   k_*: a sequence of runs on one configuration file: the version        *)
(*        config, the current_version the file holds, and of the last run  *)
(*        the part, the dry-run flag, the current_version it read and the  *)
(*        new version string it computed; the new version string of the    *)
(*        last run before it that stored one; the number of runs.          *)
(***************************************************************************)
VARIABLES b_version, b_part_name, b_order, b_result, b_done

VARIABLES s_vc, s_version, s_context, s_chosen, s_serialized, s_parsed, s_pc

bumpVars == <<b_version, b_part_name, b_order, b_result, b_done>>

serVars == <<s_vc, s_version, s_context, s_chosen, s_serialized, s_parsed, s_pc>>

VARIABLES r_files, r_vc, r_part, r_dry_run, r_disk, r_disk0, r_config, r_config0

VARIABLES r_current, r_new, r_context, r_pc, r_i, r_error, r_verified

VARIABLES r_commit, r_tag, r_vcs_calls

runVars == <<r_files, r_vc, r_part, r_dry_run, r_disk, r_disk0, r_config,
             r_config0, r_current, r_new, r_context, r_pc, r_i, r_error,
             r_verified, r_commit, r_tag, r_vcs_calls>>

VARIABLES f_config, f_value, f_result, f_done

funVars == <<f_config, f_value, f_result, f_done>>

VARIABLES u_self, u_disk, u_disk0, u_search, u_current, u_new, u_context

VARIABLES u_dry_run, u_op, u_result

fileVars == <<u_self, u_disk, u_disk0, u_search, u_current, u_new, u_context,
              u_dry_run, u_op, u_result>>

VARIABLES c_tmpfiles, c_message, c_context, c_extra_args, c_outcome, c_result, c_done
VARIABLES c_pc, c_name, c_cmd, c_seen

vcsVars == <<c_tmpfiles, c_message, c_context, c_extra_args, c_outcome, c_result,
             c_done, c_pc, c_name, c_cmd, c_seen>>

VARIABLES k_vc, k_config, k_part, k_dry_run, k_read, k_new, k_prev_new, k_runs

chainVars == <<k_vc, k_config, k_part, k_dry_run, k_read, k_new, k_prev_new, k_runs>>

VARIABLES e_values, e_optional_value, e_first_value, e_independent, e_result, e_done

enumVars == <<e_values, e_optional_value, e_first_value, e_independent, e_result, e_done>>

vars == <<bumpVars, serVars, runVars, funVars, fileVars, vcsVars, chainVars, enumVars>>

(***************************************************************************)
(* Inputs: version configs, and the version strings their regex parses.    *)
(***************************************************************************)
dev == <<"d", "e", "v">>
gamma == <<"g", "a", "m", "m", "a">>

\* a label that names no part of any version: an environment key of the context
EnvLabel == "$BUILD"

Dot == <<".">>
Dash == <<"-">>

\* (?P<major>\d+)(\.(?P<minor>\d+)(\.(?P<patch>\d+))?)?
\* (test_multiple_serialize_three_part), every part numeric by default
RegexSem ==
    <<Group(<<>>, "major", "\\d", FALSE),
      Group(Dot, "minor", "\\d", TRUE),
      Group(Dot, "patch", "\\d", TRUE)>>

FormatsSem ==
    {<<Tok(<<>>, "major"), Tok(Dot, "minor"), Tok(Dot, "patch")>>,
     <<Tok(<<>>, "major"), Tok(Dot, "minor")>>,
     <<Tok(<<>>, "major")>>,
     <<Tok(<<>>, "major"), Tok(Dot, "minor"), Tok(<<"-", "r", "c">>, NoField)>>,
     <<Tok(<<>>, "major"), Tok(Dot, EnvLabel), Tok(Dot, "minor")>>}

\* (?P<major>\d+)\.(?P<minor>\d+)(\.(?P<release>[a-z]+))?
\* with [bumpversion:part:release] values = dev, gamma; optional_value = gamma
\* (test_bump_non_numeric_parts)
RegexRel ==
    <<Group(<<>>, "major", "\\d", FALSE),
      Group(Dot, "minor", "\\d", FALSE),
      Group(Dot, "release", "[a-z]", TRUE)>>

PartConfigsRel ==
    [release |-> ConfiguredVersionPartConfiguration(<<dev, gamma>>, gamma, None, FALSE)]

FormatsRel ==
    {<<Tok(<<>>, "major"), Tok(Dot, "minor"), Tok(Dot, "release")>>,
     <<Tok(<<>>, "major"), Tok(Dot, "minor")>>,
     <<Tok(<<>>, "major"), Tok(Dot, "minor"), Tok(Dot, "release"),
       Tok(<<"+">>, EnvLabel)>>}

\* (?P<major>\d+)(\.(?P<release>[a-z]+))?(\-(?P<build>\d+))?
\* with the release part above and [bumpversion:part:build] independent = True
\* (test_build_number_configuration)
RegexBuild ==
    <<Group(<<>>, "major", "\\d", FALSE),
      Group(Dot, "release", "[a-z]", TRUE),
      Group(Dash, "build", "\\d", TRUE)>>

PartConfigsBuild ==
    [release |-> ConfiguredVersionPartConfiguration(<<dev, gamma>>, gamma, None, FALSE),
     build   |-> NumericVersionPartConfiguration(None, TRUE)]

FormatsBuild ==
    {<<Tok(<<>>, "major"), Tok(Dot, "release"), Tok(Dash, "build")>>,
     <<Tok(<<>>, "major"), Tok(Dash, "build")>>,
     <<Tok(<<>>, "major")>>}

\* the regex, part configurations and serialization templates that go together
Schemas ==
    {[regex |-> RegexSem, part_configs |-> <<>>, formats |-> FormatsSem],
     [regex |-> RegexRel, part_configs |-> PartConfigsRel, formats |-> FormatsRel],
     [regex |-> RegexBuild, part_configs |-> PartConfigsBuild, formats |-> FormatsBuild]}

\* the text a group can hold
GroupValues(vc, g) ==
    LET config == VersionPart(None, PartConfigGet(vc.part_configs, g.name)).config
    IN  IF config.function_cls = "ValuesFunction"
        THEN SeqToSet(config.values)
        ELSE {IntToStr(n) : n \in 0..MaxNum}

\* the version strings of the regex: each group with its text, optional groups
\* present or absent
RECURSIVE VersionStringsFrom(_, _)
VersionStringsFrom(vc, gi) ==
    IF gi > Len(vc.parse_regex) THEN {<<>>}
    ELSE LET g == vc.parse_regex[gi]
             rest == VersionStringsFrom(vc, gi + 1)
         IN  {g.sep \o v \o r : v \in GroupValues(vc, g), r \in rest}
             \cup (IF g.optional THEN rest ELSE {})

VersionStrings(vc) == VersionStringsFrom(vc, 1)

\* the versions VersionConfig.parse returns for them
ParsedVersions(vc) ==
    {VersionConfig_parse(vc, str).val : str \in VersionStrings(vc)}

\* the non-empty lists without repetition of at most n of the templates
FormatLists(formats, n) ==
    UNION {{q \in [1..m -> formats] :
               \A i, j \in 1..m : q[i] = q[j] => i = j} : m \in 1..n}

\* the sequences without repetition of at most n labels
Orderings(labels, n) ==
    UNION {{q \in [1..m -> labels] :
               \A i, j \in 1..m : q[i] = q[j] => i = j} : m \in 0..n}

(***************************************************************************)
(* The parts of the state a specification does not use stay as they start. *)
(***************************************************************************)
NoResult == Raise("not called")

BumpIdle ==
    /\ b_version = Version(<<>>, <<>>, None)
    /\ b_part_name = ""
    /\ b_order = <<>>
    /\ b_result = NoResult
    /\ b_done = FALSE

SerIdle ==
    /\ s_vc = VersionConfig(<<>>, <<>>, DefaultSearch, DefaultReplace, <<>>)
    /\ s_version = Version(<<>>, <<>>, None)
    /\ s_context = <<>>
    /\ s_chosen = NoResult
    /\ s_serialized = NoResult
    /\ s_parsed = NoResult
    /\ s_pc = "idle"

RunIdle ==
    /\ r_files = <<>>
    /\ r_vc = VersionConfig(<<>>, <<>>, DefaultSearch, DefaultReplace, <<>>)
    /\ r_part = ""
    /\ r_dry_run = FALSE
    /\ r_disk = <<>>
    /\ r_disk0 = <<>>
    /\ r_config = <<>>
    /\ r_config0 = <<>>
    /\ r_current = Version(<<>>, <<>>, None)
    /\ r_new = Version(<<>>, <<>>, None)
    /\ r_context = <<>>
    /\ r_pc = "idle"
    /\ r_i = 0
    /\ r_error = ""
    /\ r_verified = 0
    /\ r_commit = FALSE
    /\ r_tag = FALSE
    /\ r_vcs_calls = <<>>

FunIdle ==
    /\ f_config = NoConfig
    /\ f_value = None
    /\ f_result = NoResult
    /\ f_done = FALSE

FileIdle ==
    /\ u_self = ConfiguredFile("", VersionConfig(<<>>, <<>>, DefaultSearch,
                                                 DefaultReplace, <<>>))
    /\ u_disk = <<>>
    /\ u_disk0 = <<>>
    /\ u_search = None
    /\ u_current = Version(<<>>, <<>>, None)
    /\ u_new = Version(<<>>, <<>>, None)
    /\ u_context = <<>>
    /\ u_dry_run = FALSE
    /\ u_op = "idle"
    /\ u_result = NoResult

VcsIdle ==
    /\ c_tmpfiles = {}
    /\ c_message = None
    /\ c_context = <<>>
    /\ c_extra_args = <<>>
    /\ c_outcome = ""
    /\ c_result = NoResult
    /\ c_done = FALSE
    /\ c_pc = "idle"
    /\ c_name = ""
    /\ c_cmd = <<>>
    /\ c_seen = {}

ChainIdle ==
    /\ k_vc = VersionConfig(<<>>, <<>>, DefaultSearch, DefaultReplace, <<>>)
    /\ k_config = None
    /\ k_part = ""
    /\ k_dry_run = FALSE
    /\ k_read = None
    /\ k_new = NoResult
    /\ k_prev_new = None
    /\ k_runs = 0

EnumIdle ==
    /\ e_values = <<>>
    /\ e_optional_value = None
    /\ e_first_value = None
    /\ e_independent = FALSE
    /\ e_result = NoResult
    /\ e_done = FALSE

(***************************************************************************)
(* SpecBump: Version.bump applied to every input.                          *)
(***************************************************************************)
InitBump ==
    /\ \E schema \in Schemas :
          LET vc == VersionConfig(schema.regex, <<>>, DefaultSearch, DefaultReplace,
                                  schema.part_configs)
              labels == SeqToSet(GroupNames(schema.regex)) \cup {EnvLabel}
          IN  /\ b_version \in ParsedVersions(vc)
              /\ b_order \in Orderings(labels, MaxOrderLen)
              /\ b_part_name \in labels
    /\ b_result = NoResult
    /\ b_done = FALSE
    /\ SerIdle
    /\ RunIdle
    /\ FunIdle
    /\ FileIdle
    /\ VcsIdle
    /\ ChainIdle
    /\ EnumIdle

BumpCall ==
    /\ ~b_done
    /\ b_result' = Version_bump(b_version, b_part_name, b_order)
    /\ b_version' = VersionAfterBump(b_version, b_part_name, b_order)
    /\ b_done' = TRUE
    /\ UNCHANGED <<b_part_name, b_order, serVars, runVars, funVars, fileVars, vcsVars, chainVars, enumVars>>

NextBump == BumpCall

SpecBump == InitBump /\ [][NextBump]_vars

(***************************************************************************)
(* SpecSer: the current version is parsed; it, or the version bumped from  *)
(* it, is serialized under the context, and the string is parsed back.     *)
(***************************************************************************)
\* the context without and with the environment key
Contexts == {<<>>, (EnvLabel :> <<"7">>)}

InitSer ==
    /\ \E schema \in Schemas :
          /\ \E formats \in FormatLists(schema.formats, MaxFormats) :
                s_vc = VersionConfig(schema.regex, formats, DefaultSearch,
                                     DefaultReplace, schema.part_configs)
          /\ s_version \in ParsedVersions(s_vc)
    /\ s_context \in Contexts
    /\ s_chosen = NoResult
    /\ s_serialized = NoResult
    /\ s_parsed = NoResult
    /\ s_pc = "parsed_current"
    /\ BumpIdle
    /\ RunIdle
    /\ FunIdle
    /\ FileIdle
    /\ VcsIdle
    /\ ChainIdle
    /\ EnumIdle

\* new_version = current_version.bump(part, vc.order())
SerBump ==
    /\ s_pc = "parsed_current"
    /\ \E part \in DOMAIN s_version._values :
          LET r == Version_bump(s_version, part, VersionConfig_order(s_vc))
          IN  /\ r.ok
              /\ s_version' = r.val
    /\ s_pc' = "bumped"
    /\ UNCHANGED <<s_vc, s_context, s_chosen, s_serialized, s_parsed, bumpVars, runVars, funVars, fileVars, vcsVars, chainVars, enumVars>>

\* vc._choose_serialize_format(version, context)
SerChoose ==
    /\ s_pc \in {"parsed_current", "bumped"}
    /\ s_chosen' = VersionConfig_choose_serialize_format(s_vc, s_version, s_context)
    /\ s_pc' = "chosen"
    /\ UNCHANGED <<s_vc, s_version, s_context, s_serialized, s_parsed, bumpVars, runVars, funVars, fileVars, vcsVars, chainVars, enumVars>>

\* vc.serialize(version, context)
SerSerialize ==
    /\ s_pc = "chosen"
    /\ s_serialized' = VersionConfig_serialize(s_vc, s_version, s_context)
    /\ s_pc' = "serialized"
    /\ UNCHANGED <<s_vc, s_version, s_context, s_chosen, s_parsed, bumpVars, runVars, funVars, fileVars, vcsVars, chainVars, enumVars>>

\* vc.parse(serialized)
SerParse ==
    /\ s_pc = "serialized"
    /\ s_serialized.ok
    /\ s_parsed' = VersionConfig_parse(s_vc, s_serialized.val)
    /\ s_pc' = "parsed_back"
    /\ UNCHANGED <<s_vc, s_version, s_context, s_chosen, s_serialized, bumpVars, runVars, funVars, fileVars, vcsVars, chainVars, enumVars>>

NextSer == SerBump \/ SerChoose \/ SerSerialize \/ SerParse

SpecSer == InitSer /\ [][NextSer]_vars

(***************************************************************************)
(* Spec: one run of the tool over a list of configured files.  The run     *)
(* assembles the new version, verifies every file, rewrites every file,    *)
(* stores the new version in the configuration file and has the change     *)
(* committed and tagged; the first fatal error ends it.                    *)
(***************************************************************************)
Str_1_1 == <<"1", ".", "1">>

\* (?P<major>\d+)\.(?P<minor>\d+)(\.(?P<patch>\d+))? serialized as
\* {major}.{minor}
RegexRun ==
    <<Group(<<>>, "major", "\\d", FALSE),
      Group(Dot, "minor", "\\d", FALSE),
      Group(Dot, "patch", "\\d", TRUE)>>

DottedFormat == <<Tok(<<>>, "major"), Tok(Dot, "minor")>>
DashedFormat == <<Tok(<<>>, "major"), Tok(Dash, "minor")>>

RunConfig == VersionConfig(RegexRun, <<DottedFormat>>, DefaultSearch, DefaultReplace, <<>>)

\* the same configuration with a file's own serialize, search and replace
FileConfig(serialize, search, replace) ==
    VersionConfig(RegexRun, <<serialize>>, search, replace, <<>>)

\* {new_version} (was {current_version})
WasReplace ==
    <<Tok(<<>>, "new_version"), Tok(<<" ", "(", "w", "a", "s", " ">>, "current_version"),
      Tok(<<")">>, NoField)>>

\* the configured files a run can list: the version file, the same path
\* with dashes, the same path with a replace template that keeps the
\* current version, a readme searched for v{current_version}, a file that
\* does not exist, pyproject.toml, the same path with dashes, a file with an
\* empty search template and one whose replace template names a key the
\* context lacks
RunFiles ==
    {ConfiguredFile("VERSION", RunConfig),
     ConfiguredFile("VERSION", FileConfig(DashedFormat, DefaultSearch, DefaultReplace)),
     ConfiguredFile("VERSION", FileConfig(DottedFormat, DefaultSearch, WasReplace)),
     ConfiguredFile("pyproject.toml",
         FileConfig(DashedFormat, DefaultSearch, DefaultReplace)),
     ConfiguredFile("README",
         FileConfig(DottedFormat, <<Tok(<<"v">>, "current_version")>>,
                    <<Tok(<<"v">>, "new_version")>>)),
     ConfiguredFile("missing.txt", RunConfig),
     ConfiguredFile("pyproject.toml", RunConfig),
     ConfiguredFile("missing.txt", FileConfig(DottedFormat, <<>>, DefaultReplace)),
     ConfiguredFile("README",
         FileConfig(DottedFormat, DefaultSearch, <<Tok(<<>>, EnvLabel)>>))}

\* the lists of at most n configured files
FileLists(n) == UNION {[1..m -> RunFiles] : m \in 0..n}

Paths == {"VERSION", "README", "pyproject.toml", "missing.txt"}

\* what each path can hold before the run
RunContents(path) ==
    CASE path = "VERSION" ->
            {<<"1", ".", "1", "\n">>,
             <<"2", ".", "0", "\n">>,
             <<"1", ".", "1", "\r", "\n", "1", "-", "1", "\r", "\n">>}
      [] path = "README" ->
            {<<"v", "1", ".", "1", " ", "1", ".", "1", "\n">>,
             <<"1", ".", "1">>}
      [] path = "pyproject.toml" ->
            {<<"v", "e", "r", "s", "i", "o", "n", " ", "=", " ",
               "\"", "1", ".", "1", "\"", "\n">>,
             <<"d", "e", "p", " ", "=", " ", "'", "1", ".", "1", "'", "\n">>,
             <<"v", "e", "r", "s", "i", "o", "n", " ", "=", " ",
               "\"", "1", ".", "1", "\"", "\n",
               "d", "e", "p", " ", "=", " ", "\"", "1", "-", "1", "\"", "\n">>}
      [] OTHER -> {Missing}

RunDisks == {disk \in [Paths -> UNION {RunContents(p) : p \in Paths}] :
                \A p \in Paths : disk[p] \in RunContents(p)}

\* the current_version a configuration file can hold: a version, or text
\* the parse regex does not match
RunCurrentVersions == {Str_1_1, <<"x">>}

RunParts == {"minor", "patch"}

NoVersion == Version(<<>>, <<>>, None)

Init ==
    /\ r_vc = RunConfig
    /\ r_files \in FileLists(MaxFiles)
    /\ r_part \in RunParts
    /\ r_dry_run \in BOOLEAN
    /\ r_disk \in RunDisks
    /\ r_disk0 = r_disk
    /\ r_config \in RunCurrentVersions
    /\ r_config0 = r_config
    /\ r_current = NoVersion
    /\ r_new = NoVersion
    /\ r_context = <<>>
    /\ r_pc = "start"
    /\ r_i = 0
    /\ r_error = ""
    /\ r_verified = 0
    /\ r_commit = FALSE
    /\ r_tag = FALSE
    /\ r_vcs_calls = <<>>
    /\ BumpIdle
    /\ SerIdle
    /\ FunIdle
    /\ FileIdle
    /\ VcsIdle
    /\ ChainIdle
    /\ EnumIdle

\* the run ends with the exception e
Abort(e) ==
    /\ r_pc' = "failed"
    /\ r_error' = e

\* the phase that follows the verification, or the rewrite, of the file at
\* index i of the list
AfterFile(phase, next_phase) ==
    IF r_i < Len(r_files)
    THEN r_pc' = phase /\ r_i' = r_i + 1
    ELSE r_pc' = next_phase /\ r_i' = 1

\* the current version of the configuration file is parsed and bumped, and
\* the new version serialized
Assemble ==
    /\ r_pc = "start"
    /\ \E current \in {VersionConfig_parse(r_vc, r_config)} :
          IF ~current.ok
          THEN Abort("version-parsing") /\ UNCHANGED <<r_current, r_new, r_i>>
          ELSE
          /\ r_current' = current.val
          /\ \E new \in {Version_bump(current.val, r_part, VersionConfig_order(r_vc))} :
                IF ~new.ok
                THEN Abort(new.val) /\ UNCHANGED <<r_new, r_i>>
                ELSE
                /\ r_new' = new.val
                /\ \E new_version \in {VersionConfig_serialize(r_vc, new.val, r_context)} :
                      IF ~new_version.ok
                      THEN Abort(new_version.val) /\ UNCHANGED r_i
                      ELSE /\ r_pc' = IF r_files = <<>> THEN "update_config"
                                      ELSE "preflight"
                           /\ r_i' = 1
                           /\ UNCHANGED r_error
    /\ UNCHANGED <<r_files, r_vc, r_part, r_dry_run, r_disk, r_disk0, r_config,
                   r_config0, r_context, r_verified, r_commit, r_tag, r_vcs_calls, bumpVars, serVars, funVars, fileVars, vcsVars, chainVars, enumVars>>

\* pre-flight: should_contain_version of the next file of the list
Preflight ==
    /\ r_pc = "preflight"
    /\ \E checked \in {ConfiguredFile_should_contain_version(
                             r_disk, r_files[r_i], r_current, r_context)} :
          /\ r_context' = checked.context
          /\ IF checked.ok
             THEN /\ AfterFile("preflight", "rewrite")
                  /\ r_verified' = r_verified + 1
                  /\ UNCHANGED r_error
             ELSE Abort(checked.val) /\ UNCHANGED <<r_i, r_verified>>
    /\ UNCHANGED <<r_files, r_vc, r_part, r_dry_run, r_disk, r_disk0, r_config,
                   r_config0, r_current, r_new, r_commit, r_tag, r_vcs_calls, bumpVars, serVars, funVars, fileVars, vcsVars, chainVars, enumVars>>

\* rewrite: replace of the next file of the list
Rewrite ==
    /\ r_pc = "rewrite"
    /\ \E replaced \in {ConfiguredFile_replace(
                              r_disk, r_files[r_i], r_current, r_new, r_context,
                              r_dry_run)} :
          /\ r_context' = replaced.context
          /\ r_disk' = replaced.disk
          /\ IF replaced.ok
             THEN AfterFile("rewrite", "update_config") /\ UNCHANGED r_error
             ELSE Abort(replaced.val) /\ UNCHANGED r_i
    /\ UNCHANGED <<r_files, r_vc, r_part, r_dry_run, r_disk0, r_config,
                   r_config0, r_current, r_new, r_verified, r_commit, r_tag, r_vcs_calls, bumpVars, serVars, funVars, fileVars, vcsVars, chainVars, enumVars>>

\* the new version is stored as the configuration file's current_version,
\* unless the run is a dry run
UpdateConfig ==
    /\ r_pc = "update_config"
    /\ r_config' = IF r_dry_run THEN r_config
                   ELSE VersionConfig_serialize(r_vc, r_new, <<>>).val
    /\ r_pc' = "vcs"
    /\ UNCHANGED <<r_files, r_vc, r_part, r_dry_run, r_disk, r_disk0, r_config0,
                   r_current, r_new, r_context, r_i, r_error, r_verified,
                   r_commit, r_tag, r_vcs_calls,
                   bumpVars, serVars, funVars, fileVars, vcsVars, chainVars, enumVars>>

\* the calls handed to the VCS collaborator at the end of a run: a commit
\* when commit is configured, then a tag when tag is configured, and neither
\* in a dry run
VcsCalls(commit, tag, dry_run) ==
    (IF commit /\ ~dry_run THEN <<"commit">> ELSE <<>>)
        \o (IF tag /\ ~dry_run THEN <<"tag">> ELSE <<>>)

\* after the rewrites and the update of the configuration file the run
\* reads its commit and tag settings and has the change committed and tagged
CommitAndTag ==
    /\ r_pc = "vcs"
    /\ \E commit, tag \in BOOLEAN :
          /\ r_commit' = commit
          /\ r_tag' = tag
          /\ r_vcs_calls' = VcsCalls(commit, tag, r_dry_run)
    /\ r_pc' = "done"
    /\ UNCHANGED <<r_files, r_vc, r_part, r_dry_run, r_disk, r_disk0, r_config,
                   r_config0, r_current, r_new, r_context, r_i, r_error,
                   r_verified,
                   bumpVars, serVars, funVars, fileVars, vcsVars, chainVars, enumVars>>

Next == Assemble \/ Preflight \/ Rewrite \/ UpdateConfig \/ CommitAndTag

Spec == Init /\ [][Next]_vars

(***************************************************************************)
(* Claims about a run, checked under Spec.                                 *)
(***************************************************************************)
r_finished == r_pc \in {"done", "failed"}

\* the run assembled its versions and reached pre-flight
r_reached_preflight == r_i >= 1

\* the search expression of the file at index i of the list, for the current
\* version
SearchExpression(i) ==
    LET Expanded(current) ==
            IF ~current.ok THEN current
            ELSE FormatContext(r_files[i]._versionconfig.search,
                               "current_version" :> current.val)
    IN  Expanded(VersionConfig_serialize(r_files[i]._versionconfig, r_current, <<>>))

\* contains finds the text in the file at index i as it was before the run
FoundBefore(i, text) ==
    \E found \in {ConfiguredFile_contains(r_disk0, r_files[i], text)} :
        found.ok /\ found.val

\* contains does not find it
NotFoundBefore(i, text) ==
    \E found \in {ConfiguredFile_contains(r_disk0, r_files[i], text)} :
        found.ok /\ ~found.val

\* the file at index i, as it was before the run, fails the criterion of
\* should_contain_version: contains does not find the search expression in
\* it nor, when the search template is the default, the original version
LacksVersion(i) ==
    \E search_expression \in {SearchExpression(i)} :
        /\ search_expression.ok
        /\ NotFoundBefore(i, search_expression.val)
        /\ r_files[i]._versionconfig.search = DefaultSearch
              => NotFoundBefore(i, r_current.original)

\* it meets the criterion
HoldsVersion(i) ==
    \E search_expression \in {SearchExpression(i)} :
        /\ search_expression.ok
        /\ \/ FoundBefore(i, search_expression.val)
           \/ /\ NotFoundBefore(i, search_expression.val)
              /\ r_files[i]._versionconfig.search = DefaultSearch
              /\ FoundBefore(i, r_current.original)

NothingWritten == r_disk = r_disk0 /\ r_config = r_config0

\* C1: at the end of a run, if some file of the list fails the criterion of
\* should_contain_version (version-not-found), every file on disk and the
\* configuration file have the content they had before the run.
C1_PreflightCompleteness ==
    /\ r_finished
    /\ r_reached_preflight
    /\ \E i \in 1..Len(r_files) : LacksVersion(i)
    => NothingWritten

\* C1 witness: a run that is not a dry run verified at least one file, then
\* failed with version-not-found on a file that lacks the version, and
\* nothing is written.
C1_Witness ==
    /\ r_pc = "failed"
    /\ r_error = "VersionNotFoundException"
    /\ ~r_dry_run
    /\ r_verified >= 1
    /\ LacksVersion(r_i)
    /\ NothingWritten

MissingBefore(i) == r_disk0[r_files[i].path] = Missing

\* no file is rewritten before every file of the list has passed pre-flight
TwoPhase == r_disk # r_disk0 => r_verified = Len(r_files)

\* C2 (as stated): no file is rewritten before every file has passed
\* pre-flight; and when a file at some position of the list is missing, a
\* run that reached pre-flight ends aborted with an I/O error and every file
\* listed before the missing one has the content it had before the run.
C2_MissingFileIOError ==
    /\ TwoPhase
    /\ \A i \in 1..Len(r_files) :
          r_finished /\ r_reached_preflight /\ MissingBefore(i)
          => /\ r_pc = "failed"
             /\ r_error = "IOError"
             /\ \A j \in 1..(i - 1) :
                   r_disk[r_files[j].path] = r_disk0[r_files[j].path]

\* C2 (amended): no file is rewritten before every file has passed
\* pre-flight; and when a file of the list is missing, a run that reached
\* pre-flight ends aborted with nothing written; the abort is an I/O error
\* when every file listed before the first missing one meets the criterion of
\* should_contain_version and the search expression of the missing one is
\* not empty.
C2_MissingFileAborts ==
    /\ TwoPhase
    /\ \A i \in 1..Len(r_files) :
          r_finished /\ r_reached_preflight /\ MissingBefore(i)
          => /\ r_pc = "failed"
             /\ NothingWritten
             /\ (/\ \A j \in 1..(i - 1) : HoldsVersion(j)
                 /\ SearchExpression(i).ok
                 /\ SearchExpression(i).val # <<>>)
                => r_error = "IOError"

\* C2 witness: a run that is not a dry run verified the first file of the
\* list, which rewriting would change, then aborted with an I/O error on the
\* second file, which is missing; nothing is written.
C2_Witness ==
    /\ r_pc = "failed"
    /\ r_error = "IOError"
    /\ ~r_dry_run
    /\ r_i = 2
    /\ r_verified = 1
    /\ MissingBefore(2)
    /\ ConfiguredFile_replace(r_disk0, r_files[1], r_current, r_new, <<>>, FALSE).disk
          # r_disk0
    /\ NothingWritten

(***************************************************************************)
(* Claims about Version.bump, checked under SpecBump.                      *)
(***************************************************************************)
b_old == b_version._values
b_new == b_result.val._values
b_returned == b_done /\ b_result.ok
OrderedBefore(label, other) ==
    IndexOf(b_order, label) < IndexOf(b_order, other)

\* C3 (as stated): after bump(version, p, ordering) every part ordered before
\* p and every independent part other than p has the value it had in the
\* input version, every non-independent part ordered after p has its schema's
\* first_value, and p has bump_fn(old value of p).
C3_ResetInvariant ==
    b_returned =>
        \A label \in DOMAIN b_new :
            IF label = b_part_name
            THEN PartValue(b_new[label]) =
                     PartConfiguration_bump(b_old[label].config,
                                            PartValue(b_old[label])).val
            ELSE IF OrderedBefore(label, b_part_name) \/ is_independent(b_old[label])
            THEN PartValue(b_new[label]) = PartValue(b_old[label])
            ELSE PartValue(b_new[label]) = b_old[label].config.first_value

\* C4 (as stated): when the bumped part is independent, every part ordered
\* after it keeps its old value; and an independent part keeps its value when
\* another part is bumped.
C4_IndependentNoReset ==
    b_returned =>
        /\ is_independent(b_old[b_part_name]) =>
               \A label \in DOMAIN b_new :
                   OrderedBefore(b_part_name, label) =>
                       PartValue(b_new[label]) = PartValue(b_old[label])
        /\ \A label \in DOMAIN b_new \ {b_part_name} :
               is_independent(b_old[label]) =>
                   PartValue(b_new[label]) = PartValue(b_old[label])

b_unknown_part == ~b_result.ok /\ b_result.val = "InvalidVersionPartException"

\* C5 (as stated): bump fails with the unknown-part error exactly when
\* part_name is not a part of the version, and returns a new Version for every
\* part_name that is a part of the version.
C5_UnknownPartExactly ==
    b_done =>
        /\ ~HasPart(b_version, b_part_name) <=> b_unknown_part
        /\ HasPart(b_version, b_part_name) => b_result.ok

\* C5 (amended): bump fails with the unknown-part error exactly when part_name
\* is not both a part of the version and a label of the ordering; when it is
\* both, bump returns a new Version unless the part's own bump function fails,
\* and then that failure, not unknown-part, is raised.
C5_UnknownPartAmended ==
    b_done =>
        LET known == HasPart(b_version, b_part_name) /\ InSeq(b_order, b_part_name)
        IN  /\ ~known <=> b_unknown_part
            /\ known => (b_result.ok <=> VersionPart_bump(b_old[b_part_name]).ok)

\* C5 witness: a part of the version that the ordering does not name was
\* requested, and bump failed with unknown-part.
C5_Witness ==
    /\ b_done
    /\ HasPart(b_version, b_part_name)
    /\ ~InSeq(b_order, b_part_name)
    /\ b_unknown_part

(***************************************************************************)
(* Claims about the serialization chooser, checked under SpecSer.          *)
(***************************************************************************)
\* the chooser has returned a template
s_has_chosen ==
    s_pc \in {"chosen", "serialized", "parsed_back"} /\ s_chosen.ok

s_formats == SeqToSet(s_vc.serialize_formats)

\* the template yields a complete serialization of the version
Complete(serialize_format) ==
    VersionConfig_serialize_(s_vc, s_version, serialize_format, s_context, TRUE).ok

\* C6: if at least one configured template yields a complete
\* serialization, the chosen template yields a complete serialization.
C6_ChoosesComplete ==
    s_has_chosen =>
        ((\E t \in s_formats : Complete(t)) => Complete(s_chosen.val))

\* the number of placeholders (replacement fields) of a template
PlaceholderCount(serialize_format) == Len(labels_for_format(serialize_format))

\* C7 (as stated): among the templates that yield a complete serialization
\* the chosen one has the minimum number of placeholder segments.
C7_FewestPlaceholders ==
    s_has_chosen =>
        \A t \in s_formats :
            Complete(t) => PlaceholderCount(t) >= PlaceholderCount(s_chosen.val)

\* C7 (amended): no template that yields a complete serialization has
\* strictly fewer segments than the template the chooser selects, a segment
\* being an element of string.Formatter().parse: one per placeholder, and one
\* more when literal text follows the last placeholder.
C7_ShortestTemplate ==
    s_has_chosen =>
        \A t \in s_formats :
            Complete(t) => PartCount(t) >= PartCount(s_chosen.val)

\* C6 witness: the list holds a template that is not complete, and the chosen
\* template is complete and is not the first of the list.
C6_Witness ==
    /\ s_has_chosen
    /\ \E t \in s_formats : ~Complete(t)
    /\ s_chosen.val # s_vc.serialize_formats[1]
    /\ Complete(s_chosen.val)

\* C7 witness: the chosen template is complete, is not the first of the list,
\* and another complete template has more segments.
C7_Witness ==
    /\ s_has_chosen
    /\ Complete(s_chosen.val)
    /\ s_chosen.val # s_vc.serialize_formats[1]
    /\ \E t \in s_formats : Complete(t) /\ PartCount(t) > PartCount(s_chosen.val)

\* the index in the order of the last version part whose value differs from
\* its optional_value (0 when there is none)
LastNonOptional ==
    LET keys == VersionConfig_order(s_vc)
        nonopt == {i \in 1..Len(keys) :
                      /\ IsVersionPart(s_version, keys[i])
                      /\ PartValue(s_version._values[keys[i]])
                             # s_version._values[keys[i]].config.optional_value}
    IN  IF nonopt = {} THEN 0
        ELSE CHOOSE i \in nonopt : \A j \in nonopt : j <= i

\* the labels of the order up to the last non-optional part
PrefixLabels ==
    {VersionConfig_order(s_vc)[i] : i \in 1..LastNonOptional}

\* the version parts among them
PrefixParts == {k \in PrefixLabels : IsVersionPart(s_version, k)}

\* C8: a template the chooser tries gives a complete serialization exactly
\* when it has a placeholder for every part in the prefix of the order that
\* ends at the last part whose value differs from its optional_value.
C8_CompleteIffPrefixParts ==
    s_has_chosen =>
        \A t \in s_formats :
            Complete(t) <=> PrefixParts \subseteq SeqToSet(labels_for_format(t))

\* C9: when no configured template yields a complete serialization and none
\* raises missing-value, the chooser selects the first template of the list.
C9_FirstWhenNoneComplete ==
    s_has_chosen =>
        ((\A t \in s_formats : ~Complete(t)) =>
             s_chosen.val = s_vc.serialize_formats[1])

\* parse(serialize(V)) is a version with V's value on every part name of V
s_round_trip ==
    \A k \in DOMAIN s_version._values :
        PartValue(s_parsed.val._values[k]) = PartValue(s_version._values[k])

\* C10: whenever parse(serialize(V)) is not the unparsed sentinel, it has the
\* same value as V on every part name of V.
C10_RoundTrip ==
    (s_pc = "parsed_back" /\ s_parsed.ok) => s_round_trip

(***************************************************************************)
(* SpecFun: the bump of a part configuration applied to every input.       *)
(* Numeric configurations take the strings over NumChars (a letter, a      *)
(* separator, digits that carry and a line break) of up to MaxValueLen     *)
(* characters; enumerated configurations take the lists over ValueNames of *)
(* 1..MaxValues values, repeated values included, and are given each value *)
(* of the list and one value outside it.                                   *)
(***************************************************************************)
MaxValueLen == 3

MaxValues == 3

NumChars == {"r", "-", "0", "1", "9", "\n"}

RECURSIVE StringsOver(_, _)
StringsOver(chars, n) ==
    IF n = 0 THEN {<<>>}
    ELSE LET shorter == StringsOver(chars, n - 1)
         IN  shorter \cup {Append(w, c) : w \in shorter, c \in chars}

ValueNames == {dev, gamma, <<"r", "c">>}

ValueLists == StringsOver(ValueNames, MaxValues) \ {<<>>}

InitFun ==
    /\ \/ /\ f_config = NumericVersionPartConfiguration(None, FALSE)
          /\ f_value \in StringsOver(NumChars, MaxValueLen)
       \/ /\ \E values \in ValueLists :
                /\ f_config = ConfiguredVersionPartConfiguration(values, None, None,
                                                                 FALSE)
                /\ f_value \in SeqToSet(values) \cup {<<"x">>}
    /\ f_result = NoResult
    /\ f_done = FALSE
    /\ BumpIdle
    /\ SerIdle
    /\ RunIdle
    /\ FileIdle
    /\ VcsIdle
    /\ ChainIdle
    /\ EnumIdle

FunBump ==
    /\ ~f_done
    /\ f_result' = PartConfiguration_bump(f_config, f_value)
    /\ f_done' = TRUE
    /\ UNCHANGED <<f_config, f_value, bumpVars, serVars, runVars, fileVars, vcsVars, chainVars, enumVars>>

NextFun == FunBump

SpecFun == InitFun /\ [][NextFun]_vars

(***************************************************************************)
(* Claims about the bump functions (SpecFun).                              *)
(***************************************************************************)
f_numeric == f_done /\ f_config.function_cls = "NumericFunction"

f_enumerated == f_done /\ f_config.function_cls = "ValuesFunction"

HasDigit(s) == \E i \in 1..Len(s) : IsDigit(s[i])

\* the text of s before its first digit, its first maximal digit run, and
\* all the text after that run
BeforeRun(s) == SubSeq(s, 1, FirstDigitPos(s) - 1)

FirstRun(s) == SubSeq(s, FirstDigitPos(s), RunEnd(s, FirstDigitPos(s)))

AfterRun(s) == SubSeq(s, RunEnd(s, FirstDigitPos(s)) + 1, Len(s))

\* C11: the numeric bump of a string with a digit returns the text before
\* the first maximal digit run, the decimal representation of the run's
\* value plus one, and all the text after the run, unchanged.
C11_NumericBump ==
    (f_numeric /\ HasDigit(f_value))
        => /\ f_result.ok
           /\ f_result.val = BeforeRun(f_value)
                                 \o IntToStr(StrToInt(FirstRun(f_value)) + 1)
                                 \o AfterRun(f_value)

\* the indexes at which the list holds the value
IndexesOf(values, value) == {i \in 1..Len(values) : values[i] = value}

TerminalValue == Raise("ValueError: terminal value")

\* C12 as stated: bumping values[i] returns values[i+1] for every index i
\* below the last one, and bumping the last element fails with the
\* terminal-value error.
C12_EnumeratedBump ==
    f_enumerated
        => \A i \in IndexesOf(f_config.values, f_value) :
              IF i < Len(f_config.values)
              THEN f_result.ok /\ f_result.val = f_config.values[i + 1]
              ELSE f_result = TerminalValue

\* C12, amended: bumping a value of the list returns the element after the
\* first occurrence of the value, and fails with the terminal-value error
\* when that first occurrence is the last element; a bump that returns,
\* returns a value of the list.
C12_EnumeratedBumpAmended ==
    (f_enumerated /\ InSeq(f_config.values, f_value))
        => LET i == CHOOSE k \in IndexesOf(f_config.values, f_value) :
                        \A j \in IndexesOf(f_config.values, f_value) : k <= j
           IN  /\ IF i < Len(f_config.values)
                  THEN f_result.ok /\ f_result.val = f_config.values[i + 1]
                  ELSE f_result = TerminalValue
               /\ f_result.ok => InSeq(f_config.values, f_result.val)

\* C12 witnesses: the last element of a list of distinct values was bumped
\* and the call failed with the terminal-value error.
C12_Witness ==
    /\ f_enumerated
    /\ f_config.values = <<dev, <<"r", "c">>, gamma>>
    /\ f_value = gamma
    /\ f_result = TerminalValue

(***************************************************************************)
(* SpecFile: the methods of a configured file applied to every input:      *)
(* contains and should_contain_version any number of times, or one call of *)
(* replace.  The inputs                                                    *)
(* are of two kinds: a file of at most MaxFileLines lines searched for an  *)
(* expression of at most MaxSearchLines lines, the lines drawn from        *)
(* LineTexts (a text, another, and one that contains both); and the        *)
(* configured files of FileFiles over the disks of FileDisks, with the     *)
(* current version 1.1 and the version bumped from it.                     *)
(***************************************************************************)
MaxSearchLines == 3

MaxFileLines == 3

LineTexts == {<<"a">>, <<"b">>, <<"a", "b">>}

\* the lines joined, each followed by end
RECURSIVE JoinLines(_, _)
JoinLines(lines, end) ==
    IF lines = <<>> THEN <<>>
    ELSE Head(lines) \o end \o JoinLines(Tail(lines), end)

\* the search expressions of 1..MaxSearchLines lines (no line break after
\* the last line), and the empty expression
SearchExpressions ==
    {<<>>} \cup {LET text == JoinLines(lines, <<"\n">>)
                 IN  SubSeq(text, 1, Len(text) - 1) :
                     lines \in StringsOver(LineTexts, MaxSearchLines) \ {<<>>}}

\* the files of 0..MaxFileLines lines
LineFiles == {JoinLines(lines, <<"\n">>) : lines \in StringsOver(LineTexts, MaxFileLines)}

FileVersion == VersionConfig_parse(RunConfig, Str_1_1).val

\* the parts bumped to get the new version: 2.0 and 1.2
FileParts == {"major", "minor"}

\* the configured files of a run, the version file with a replace template
\* of two lines, the line break written "\n" and written "\r\n",
\* pyproject.toml searched for v{current_version}, and a readme whose
\* replace template is its search template
FileFiles ==
    RunFiles \cup
    {ConfiguredFile("VERSION",
         FileConfig(DottedFormat, DefaultSearch,
                    <<Tok(<<>>, "new_version"), Tok(break \o <<"#">>, NoField)>>)) :
         break \in {<<"\n">>, <<"\r", "\n">>}} \cup
    {ConfiguredFile("pyproject.toml",
         FileConfig(DottedFormat, <<Tok(<<"v">>, "current_version")>>,
                    <<Tok(<<"v">>, "new_version")>>)),
     ConfiguredFile("README",
         FileConfig(DottedFormat, <<Tok(<<"v">>, "current_version")>>,
                    <<Tok(<<"v">>, "current_version")>>))}

\* what each path can hold before the call: the contents of a run and, for
\* pyproject.toml, a version line followed by a dependency line that holds
\* the same version, a version line that holds 1x1, a version line that
\* holds v1.1 followed by a line x = "v1.1", and x = "v1.1" followed by a
\* bare 1.1
FileContents(path) ==
    RunContents(path) \cup
    (IF path = "pyproject.toml"
     THEN {<<"v", "e", "r", "s", "i", "o", "n", " ", "=", " ",
             "\"", "1", ".", "1", "\"", "\n",
             "d", "e", "p", " ", "=", " ", "\"", "1", ".", "1", "\"", "\n">>,
           <<"v", "e", "r", "s", "i", "o", "n", "=", "'", "1", "x", "1", "'", "\n">>,
           <<"v", "e", "r", "s", "i", "o", "n", " ", "=", " ",
             "\"", "v", "1", ".", "1", "\"", "\n",
             "x", " ", "=", " ", "\"", "v", "1", ".", "1", "\"", "\n">>,
           <<"x", " ", "=", " ", "\"", "v", "1", ".", "1", "\"", "\n",
             "1", ".", "1", "\n">>}
     ELSE {})

FileDisks == {disk \in [Paths -> UNION {FileContents(p) : p \in Paths}] :
                 \A p \in Paths : disk[p] \in FileContents(p)}

InitFile ==
    /\ \/ /\ u_self = ConfiguredFile("VERSION", RunConfig)
          /\ \E text \in LineFiles : u_disk = [p \in {"VERSION"} |-> text]
          /\ u_search \in SearchExpressions
          /\ u_dry_run = FALSE
       \/ /\ u_self \in FileFiles
          /\ u_disk \in FileDisks
          /\ u_search \in {Str_1_1, <<"v">> \o Str_1_1}
          /\ u_dry_run \in BOOLEAN
    /\ u_disk0 = u_disk
    /\ u_current = FileVersion
    /\ u_new \in {Version_bump(FileVersion, part, VersionConfig_order(RunConfig)).val :
                     part \in FileParts}
    /\ u_context = <<>>
    /\ u_op = "none"
    /\ u_result = NoResult
    /\ BumpIdle
    /\ SerIdle
    /\ RunIdle
    /\ FunIdle
    /\ VcsIdle
    /\ ChainIdle
    /\ EnumIdle

\* self.contains(search); the verification methods can be called any number
\* of times
FileContains ==
    /\ u_op \in {"none", "contains", "should_contain_version"}
    /\ u_op' = "contains"
    /\ u_result' = ConfiguredFile_contains(u_disk, u_self, u_search)
    /\ u_disk' = DiskAfterRead(u_disk, u_self.path)
    /\ UNCHANGED <<u_self, u_disk0, u_search, u_current, u_new, u_context,
                   u_dry_run, bumpVars, serVars, runVars, funVars, vcsVars, chainVars, enumVars>>

\* self.should_contain_version(current_version, context)
FileShouldContainVersion ==
    /\ u_op \in {"none", "contains", "should_contain_version"}
    /\ u_op' = "should_contain_version"
    /\ \E checked \in {ConfiguredFile_should_contain_version(
                             u_disk, u_self, u_current, u_context)} :
          /\ u_result' = [ok |-> checked.ok, val |-> checked.val]
          /\ u_context' = checked.context
    /\ u_disk' = DiskAfterRead(u_disk, u_self.path)
    /\ UNCHANGED <<u_self, u_disk0, u_search, u_current, u_new, u_dry_run,
                   bumpVars, serVars, runVars, funVars, vcsVars, chainVars, enumVars>>

\* self.replace(current_version, new_version, context, dry_run)
FileReplace ==
    /\ u_op = "none"
    /\ u_op' = "replace"
    /\ \E replaced \in {ConfiguredFile_replace(
                              u_disk, u_self, u_current, u_new, u_context,
                              u_dry_run)} :
          /\ u_result' = [ok |-> replaced.ok, val |-> replaced.val]
          /\ u_context' = replaced.context
          /\ u_disk' = replaced.disk
    /\ UNCHANGED <<u_self, u_disk0, u_search, u_current, u_new, u_dry_run,
                   bumpVars, serVars, runVars, funVars, vcsVars, chainVars, enumVars>>

NextFile == FileContains \/ FileShouldContainVersion \/ FileReplace

SpecFile == InitFile /\ [][NextFile]_vars

(***************************************************************************)
(* Claims about the methods of a configured file (SpecFile).               *)
(***************************************************************************)
\* the lines of the file as contains reads them, without their line breaks
FileLines(raw) ==
    LET lines == readlines(TranslateNewlines(raw))
    IN  [i \in 1..Len(lines) |-> RStripNewline(lines[i])]

\* the file has Len(search_lines) consecutive lines of which the first
\* contains the first search line, the last contains the last search line
\* and the ones between equal the search lines between
HasWindow(file_lines, search_lines) ==
    LET n == Len(search_lines)
    IN  \E k \in 0..(Len(file_lines) - n) :
           /\ IsSubstring(search_lines[1], file_lines[k + 1])
           /\ IsSubstring(search_lines[n], file_lines[k + n])
           /\ \A j \in 2..(n - 1) : search_lines[j] = file_lines[k + j]

\* C13: contains(search), for a search expression of n >= 1 lines and a
\* file that exists, returns true exactly when the file has a window of n
\* consecutive lines that matches; a file of fewer than n lines gives false.
C13_ContainsWindow ==
    (u_op = "contains" /\ Truthy(u_search) /\ u_disk0[u_self.path] # Missing)
        => /\ u_result.ok
           /\ u_result.val = HasWindow(FileLines(u_disk0[u_self.path]),
                                       splitlines(u_search))

\* the search expression should_contain_version expands for the call
u_search_expression ==
    LET Expanded(current) ==
            IF ~current.ok THEN current
            ELSE FormatContext(u_self._versionconfig.search,
                               "current_version" :> current.val)
    IN  Expanded(VersionConfig_serialize(u_self._versionconfig, u_current, <<>>))

\* contains finds the text in the file as it was before the call
u_found(text) ==
    \E found \in {ConfiguredFile_contains(u_disk0, u_self, text)} :
        found.ok /\ found.val

\* contains does not find it
u_not_found(text) ==
    \E found \in {ConfiguredFile_contains(u_disk0, u_self, text)} :
        found.ok /\ ~found.val

\* the file lacks the expanded search expression
u_lacks_search == u_search_expression.ok /\ u_not_found(u_search_expression.val)

u_search_is_default == u_self._versionconfig.search = DefaultSearch

VersionNotFound == Raise("VersionNotFoundException")

\* C14: for a file that lacks the expanded search expression,
\* should_contain_version returns normally only if the search template is
\* the default and the file contains version.original (and then it does),
\* and with a customized search template it raises version-not-found,
\* also when the file contains the original version.
C14_FallbackOnlyForDefault ==
    (u_op = "should_contain_version" /\ u_lacks_search)
        => /\ u_result.ok
                <=> (u_search_is_default /\ u_found(u_current.original))
           /\ ~u_search_is_default => u_result = VersionNotFound

\* C14 witness: a file searched with a customized template lacks the
\* expanded expression, contains the original version and was rejected
\* with version-not-found.
C14_Witness ==
    /\ u_op = "should_contain_version"
    /\ u_lacks_search
    /\ ~u_search_is_default
    /\ u_found(u_current.original)
    /\ u_result = VersionNotFound

\* the new text replace puts in for the call
u_replace_with ==
    LET Expanded(current, new) ==
            IF ~current.ok THEN current
            ELSE IF ~new.ok THEN new
            ELSE FormatContext(u_self._versionconfig.replace,
                     ("current_version" :> current.val)
                         @@ ("new_version" :> new.val))
    IN  Expanded(VersionConfig_serialize(u_self._versionconfig, u_current, <<>>),
                 VersionConfig_serialize(u_self._versionconfig, u_new, <<>>))

\* the content of the file of the call as text mode reads it, before and
\* after the call
u_before == TranslateNewlines(u_disk0[u_self.path])

u_after == TranslateNewlines(u_disk[u_self.path])

\* replace returned and has written the file
u_rewritten == u_op = "replace" /\ u_result.ok /\ ~u_dry_run

\* the line is version = <quote>search<quote> from its first character on,
\* the search expression compared as Matches compares it
AssignmentLine(line, search, Matches(_, _, _)) ==
    LET eq == SkipSpace(line, Len(VersionKeyword) + 1)
        quote == SkipSpace(line, eq + 1)
        close == quote + 1 + Len(search)
    IN  /\ OccursAt(line, VersionKeyword, 1)
        /\ eq <= Len(line) /\ line[eq] = "="
        /\ quote <= Len(line) /\ line[quote] \in {"'", "\""}
        /\ Matches(line, search, quote + 1)
        /\ close <= Len(line) /\ line[close] = line[quote]

\* the lines of the file that are not such assignments are as they were
OnlyAssignmentsChanged(search, Matches(_, _, _)) ==
    LET before == FileLines(u_disk0[u_self.path])
        after == FileLines(u_disk[u_self.path])
    IN  /\ Len(after) = Len(before)
        /\ \A i \in 1..Len(before) :
              ~AssignmentLine(before[i], search, Matches) => after[i] = before[i]

u_pyproject == PathName(u_self.path) = "pyproject.toml"

\* C15 as stated: replace of pyproject.toml changes only the lines that are
\* version = <quote>search_expr<quote>; the search expression and the
\* original version elsewhere in the file are left as they are.
C15_PyprojectFrame ==
    (u_rewritten /\ u_pyproject)
        => OnlyAssignmentsChanged(u_search_expression.val, OccursAt)

\* C15, amended: when some line of pyproject.toml is
\* version = <quote>text<quote> with text matching the search expression
\* read as a regular expression, only such lines are changed; when no line
\* is, every occurrence of version.original in the file is replaced by the
\* replace expression.
C15_PyprojectFrameAmended ==
    (u_rewritten /\ u_pyproject)
        => IF \E i \in DOMAIN FileLines(u_disk0[u_self.path]) :
                 AssignmentLine(FileLines(u_disk0[u_self.path])[i],
                                u_search_expression.val, PatternAt)
           THEN OnlyAssignmentsChanged(u_search_expression.val, PatternAt)
           ELSE u_after = StrReplace(u_before, u_current.original,
                                     u_replace_with.val)

\* C15 witness: pyproject.toml held a version line and a dependency line
\* with the same version; the version line was rewritten and the dependency
\* line was not.
C15_Witness ==
    /\ u_rewritten /\ u_pyproject
    /\ Len(FileLines(u_disk0[u_self.path])) = 2
    /\ FileLines(u_disk[u_self.path])[1] # FileLines(u_disk0[u_self.path])[1]
    /\ FileLines(u_disk[u_self.path])[2] = FileLines(u_disk0[u_self.path])[2]
    /\ IsSubstring(u_current.original, FileLines(u_disk[u_self.path])[2])

\* after is before with some occurrences of old replaced by new and nothing
\* else changed, read from position i of before and j of after
RECURSIVE OnlyOccurrencesReplaced(_, _, _, _, _, _)
OnlyOccurrencesReplaced(before, after, old, new, i, j) ==
    IF i > Len(before) THEN j > Len(after)
    ELSE \/ /\ j <= Len(after)
            /\ before[i] = after[j]
            /\ OnlyOccurrencesReplaced(before, after, old, new, i + 1, j + 1)
         \/ /\ old # <<>>
            /\ OccursAt(before, old, i)
            /\ OccursAt(after, new, j)
            /\ OnlyOccurrencesReplaced(before, after, old, new,
                                       i + Len(old), j + Len(new))

\* what the first substitution of replace makes of the content: in
\* pyproject.toml the lines version = "search_expr" rewritten, in any other
\* file every occurrence of the search expression replaced
u_first_substitution ==
    IF u_pyproject
    THEN PyprojectSubFrom(u_before, u_search_expression.val, u_replace_with.val, 1)
    ELSE StrReplace(u_before, u_search_expression.val, u_replace_with.val)

\* C16 as stated: with a customized search template replace modifies only
\* occurrences of the expanded search expression: the content after is the
\* content before with occurrences of the search expression replaced by the
\* replace expression, so every other occurrence of the version is still
\* there.
C16_CustomSearchFrame ==
    (u_rewritten /\ ~u_search_is_default)
        => OnlyOccurrencesReplaced(u_before, u_after, u_search_expression.val,
                                   u_replace_with.val, 1, 1)

\* C16, amended: with a customized search template, when the first
\* substitution changes the content, replace modifies only what it matches:
\* in pyproject.toml only lines version = "search_expr", in any other file
\* every occurrence of the search expression and nothing else.  When it
\* changes nothing (the expression does not occur, occurs in pyproject.toml
\* outside such a line, or equals the replace expression), every occurrence
\* of version.original is replaced by the replace expression.
C16_CustomSearchFrameAmended ==
    (u_rewritten /\ ~u_search_is_default)
        => IF u_first_substitution # u_before
           THEN IF u_pyproject
                THEN OnlyAssignmentsChanged(u_search_expression.val, PatternAt)
                ELSE u_after = StrReplace(u_before, u_search_expression.val,
                                          u_replace_with.val)
           ELSE u_after = StrReplace(u_before, u_current.original,
                                     u_replace_with.val)

\* C16 witness: a file searched for v1.1 held v1.1 and, next to it, 1.1;
\* v1.1 was rewritten and the other 1.1 is still there.
C16_Witness ==
    /\ u_rewritten /\ ~u_search_is_default
    /\ u_before = <<"v", "1", ".", "1", " ", "1", ".", "1", "\n">>
    /\ u_after # u_before
    /\ SubSeq(u_after, Len(u_after) - 4, Len(u_after)) = <<" ", "1", ".", "1", "\n">>

\* C18: contains and should_contain_version never modify a file: after any
\* number of calls, returning or raising, every file has the content it had
\* before, and a file that did not exist still does not.
C18_VerificationReadOnly ==
    u_op \in {"contains", "should_contain_version"} => u_disk = u_disk0

\* C18 witness: should_contain_version failed with version-not-found on a
\* file that exists, and the file is as it was.
C18_Witness ==
    /\ u_op = "should_contain_version"
    /\ u_result = VersionNotFound
    /\ u_disk0[u_self.path] # Missing
    /\ u_disk = u_disk0

\* the file has line breaks, and all of them are sep
OnlySeparator(raw, sep) == FileNewlines(raw) = <<sep>>

\* the file has no line break other than sep
NoOtherSeparator(raw, sep) == SeqToSet(FileNewlines(raw)) \subseteq {sep}

LineSeparators == {<<"\n">>, <<"\r", "\n">>}

\* C20 as stated: replace writes a file whose lines all end with the same
\* separator, "\n" or "\r\n", with that separator and no other, also in the
\* text a multi-line replace expression brings in.
C20_LineEndingPreserved ==
    u_rewritten
        => \A sep \in LineSeparators :
              OnlySeparator(u_disk0[u_self.path], sep)
                  => NoOtherSeparator(u_disk[u_self.path], sep)

\* C20, amended: that holds for a replace expression whose own line breaks
\* are "\n", with no carriage return in it.
C20_LineEndingPreservedAmended ==
    (u_rewritten /\ \A i \in DOMAIN u_replace_with.val : u_replace_with.val[i] # "\r")
        => \A sep \in LineSeparators :
              OnlySeparator(u_disk0[u_self.path], sep)
                  => NoOtherSeparator(u_disk[u_self.path], sep)

\* C20 witness: a file of "\r\n" lines was rewritten with a replace
\* expression of two lines; it has one line more and only "\r\n" separators.
C20_Witness ==
    /\ u_rewritten
    /\ OnlySeparator(u_disk0[u_self.path], <<"\r", "\n">>)
    /\ \E i \in DOMAIN u_replace_with.val : u_replace_with.val[i] = "\n"
    /\ \A i \in DOMAIN u_replace_with.val : u_replace_with.val[i] # "\r"
    /\ Len(FileLines(u_disk[u_self.path])) = Len(FileLines(u_disk0[u_self.path])) + 1
    /\ OnlySeparator(u_disk[u_self.path], <<"\r", "\n">>)

(***************************************************************************)
(* SpecCommit: one call of BaseVCS.commit on every input: messages that    *)
(* can and cannot be encoded, contexts with and without current_version    *)
(* and new_version, a temporary directory that is empty or holds another   *)
(* file, and a VCS command that cannot be started, succeeds or fails.  The *)
(* call is four steps, because it waits for the command between creating   *)
(* the temporary file and unlinking it:                                    *)
(*   CommitPrepare        creates and writes the file, builds the          *)
(*                        environment (24-29); an exception here ends the  *)
(*                        call outside the try statement;                  *)
(*   CommitCommandStarts  check_output starts the command (31-33), which   *)
(*                        sees the temporary directory with the file in    *)
(*                        it, or fails to start it (OSError);              *)
(*   CommitCommandEnds    the command ends and check_output returns or     *)
(*                        raises CalledProcessError (31-37);               *)
(*   CommitUnlink         the finally clause unlinks the file (38-39) and  *)
(*                        the call returns or raises.                      *)
(***************************************************************************)
CommitMessages == {<<"B", "u", "m", "p">>, <<"B", Surrogate>>, None}

CommitKeys == {"current_version", "new_version", "dirty"}

CommitContexts == UNION {[keys -> {Str_1_1}] : keys \in SUBSET CommitKeys}

\* how a command that was started ends
CommitOutcomes == {"returns", "CalledProcessError"}

InitCommit ==
    /\ c_tmpfiles \in {{}, {"tmp1"}}
    /\ c_message \in CommitMessages
    /\ c_context \in CommitContexts
    /\ c_extra_args \in {<<>>, <<"--no-verify">>}
    /\ c_outcome = ""
    /\ c_result = NoResult
    /\ c_done = FALSE
    /\ c_pc = "start"
    /\ c_name = ""
    /\ c_cmd = <<>>
    /\ c_seen = {}
    /\ BumpIdle
    /\ SerIdle
    /\ RunIdle
    /\ FunIdle
    /\ FileIdle
    /\ ChainIdle
    /\ EnumIdle

\* lines 24-29: NamedTemporaryFile creates the file, the encoded message is
\* written to it and the environment is built from the context
CommitPrepare ==
    /\ c_pc = "start"
    /\ \E name \in {NewTempName(c_tmpfiles)}, encoded \in {Encode(c_message)} :
          /\ c_name' = name
          /\ c_tmpfiles' = c_tmpfiles \cup {name}
          /\ IF ~encoded.ok
             THEN /\ c_result' = Committed(FALSE, encoded.val, c_tmpfiles', name, <<>>)
                  /\ c_pc' = "done"
             ELSE IF \E key \in {"current_version", "new_version"} :
                         key \notin DOMAIN c_context
             THEN /\ c_result' = Committed(FALSE, "KeyError", c_tmpfiles', name, <<>>)
                  /\ c_pc' = "done"
             ELSE /\ c_result' = c_result
                  /\ c_pc' = "call"
    /\ c_done' = (c_pc' = "done")
    /\ UNCHANGED <<c_message, c_context, c_extra_args, c_outcome, c_cmd, c_seen,
                   bumpVars, serVars, runVars, funVars, fileVars, chainVars,
                   enumVars>>

\* lines 31-33: check_output is called with the command line; the command
\* starts and sees the temporary directory, or cannot be started
CommitCommandStarts ==
    /\ c_pc = "call"
    /\ c_cmd' = COMMIT_COMMAND \o <<c_name>> \o c_extra_args
    /\ \E started \in BOOLEAN :
          IF started
          THEN /\ c_seen' = c_tmpfiles
               /\ c_outcome' = c_outcome
               /\ c_pc' = "waiting"
          ELSE /\ c_seen' = c_seen
               /\ c_outcome' = "OSError"
               /\ c_pc' = "finally"
    /\ UNCHANGED <<c_tmpfiles, c_message, c_context, c_extra_args, c_result,
                   c_done, c_name, bumpVars, serVars, runVars, funVars,
                   fileVars, chainVars, enumVars>>

\* lines 31-37: the command ends; check_output returns or raises
\* CalledProcessError, which is logged and raised again
CommitCommandEnds ==
    /\ c_pc = "waiting"
    /\ \E outcome \in CommitOutcomes : c_outcome' = outcome
    /\ c_pc' = "finally"
    /\ UNCHANGED <<c_tmpfiles, c_message, c_context, c_extra_args, c_result,
                   c_done, c_name, c_cmd, c_seen, bumpVars, serVars, runVars,
                   funVars, fileVars, chainVars, enumVars>>

\* lines 38-39: the finally clause unlinks the file, then commit returns or
\* the exception of the try statement goes on to the caller
CommitUnlink ==
    /\ c_pc = "finally"
    /\ c_tmpfiles' = c_tmpfiles \ {c_name}
    /\ c_result' = IF c_outcome = "returns"
                   THEN Committed(TRUE, "return", c_tmpfiles', c_name, c_cmd)
                   ELSE Committed(FALSE, c_outcome, c_tmpfiles', c_name, c_cmd)
    /\ c_pc' = "done"
    /\ c_done' = TRUE
    /\ UNCHANGED <<c_message, c_context, c_extra_args, c_outcome, c_name, c_cmd,
                   c_seen, bumpVars, serVars, runVars, funVars, fileVars,
                   chainVars, enumVars>>

NextCommit ==
    CommitPrepare \/ CommitCommandStarts \/ CommitCommandEnds \/ CommitUnlink

SpecCommit == InitCommit /\ [][NextCommit]_vars

(***************************************************************************)
(* Claims about commit (SpecCommit).                                       *)
(***************************************************************************)
\* C19: after commit returns or raises, for any reason (the VCS command
\* succeeded or failed, or preparing the message file or the environment
\* failed), the temporary file it created no longer exists.
C19_TempFileDeleted ==
    c_done => c_result.name \notin c_tmpfiles

(***************************************************************************)
(* SpecChain: up to MaxRuns runs, one after the other, on one              *)
(* configuration file.  A run parses the current_version the file holds,   *)
(* bumps the part asked for and serializes the new version; when nothing   *)
(* fails and the run is not a dry run, the new version string is stored as *)
(* the file's current_version.  The configurations are those of the tests *)
(* that run the tool more than once: the release schema (1.5.dev, release  *)
(* gives 1.5, minor gives 1.6.dev), the three-part numeric schema (0.0.13, *)
(* patch gives 0.0.14) and the two-part schema of the runs above.          *)
(***************************************************************************)
MaxRuns == 2

ChainRelConfig ==
    VersionConfig(RegexRel,
                  <<(<<Tok(<<>>, "major"), Tok(Dot, "minor"), Tok(Dot, "release")>>),
                    (<<Tok(<<>>, "major"), Tok(Dot, "minor")>>)>>,
                  DefaultSearch, DefaultReplace, PartConfigsRel)

\* (?P<major>\d+)\.(?P<minor>\d+)\.(?P<patch>\d+) serialized as
\* {major}.{minor}.{patch} (test_config_file_is_updated)
ChainPatchConfig ==
    VersionConfig(<<Group(<<>>, "major", "\\d", FALSE),
                    Group(Dot, "minor", "\\d", FALSE),
                    Group(Dot, "patch", "\\d", FALSE)>>,
                  <<(<<Tok(<<>>, "major"), Tok(Dot, "minor"), Tok(Dot, "patch")>>)>>,
                  DefaultSearch, DefaultReplace, <<>>)

ChainConfigs == {ChainRelConfig, ChainPatchConfig, RunConfig}

Str_1_5 == <<"1", ".", "5">>

Str_0_0_13 == <<"0", ".", "0", ".", "1", "3">>

\* the current_version a configuration file can hold at first
ChainCurrentVersions ==
    {Str_1_5 \o Dot \o dev, Str_1_5 \o Dot \o gamma, Str_0_0_13, Str_1_1, <<"x">>}

ChainParts == {"major", "minor", "patch", "release"}

\* what the tests expect in the configured file and in the configuration
\* file after a run: the configuration, the current_version read, the part
\* bumped and the new version string
TestChains ==
    {[vc |-> ChainRelConfig, current |-> Str_1_5 \o Dot \o dev, part |-> "release",
      new |-> Str_1_5],
     [vc |-> ChainRelConfig, current |-> Str_1_5, part |-> "minor",
      new |-> <<"1", ".", "6">> \o Dot \o dev],
     [vc |-> ChainPatchConfig, current |-> Str_0_0_13, part |-> "patch",
      new |-> <<"0", ".", "0", ".", "1", "4">>]}

\* what a run computes from the current_version it reads: the new version
\* string, or the error that ends the run
NewVersionOfRun(vc, current_version, part) ==
    LET Bumped(new) ==
            IF ~new.ok THEN new ELSE VersionConfig_serialize(vc, new.val, <<>>)
        Parsed(current) ==
            IF ~current.ok THEN Raise("version-parsing")
            ELSE Bumped(Version_bump(current.val, part, VersionConfig_order(vc)))
    IN  Parsed(VersionConfig_parse(vc, current_version))

InitChain ==
    /\ k_vc \in ChainConfigs
    /\ k_config \in ChainCurrentVersions
    /\ k_part = ""
    /\ k_dry_run = FALSE
    /\ k_read = None
    /\ k_new = NoResult
    /\ k_prev_new = None
    /\ k_runs = 0
    /\ BumpIdle
    /\ SerIdle
    /\ RunIdle
    /\ FunIdle
    /\ FileIdle
    /\ VcsIdle
    /\ EnumIdle

\* one run
ChainRun ==
    /\ k_runs < MaxRuns
    /\ \E part \in ChainParts, dry_run \in BOOLEAN :
          /\ k_part' = part
          /\ k_dry_run' = dry_run
          /\ \E new_version \in {NewVersionOfRun(k_vc, k_config, part)} :
                /\ k_new' = new_version
                /\ k_config' = IF new_version.ok /\ ~dry_run
                               THEN new_version.val ELSE k_config
    /\ k_read' = k_config
    /\ k_prev_new' = IF k_new.ok /\ ~k_dry_run THEN k_new.val ELSE k_prev_new
    /\ k_runs' = k_runs + 1
    /\ UNCHANGED <<k_vc, bumpVars, serVars, runVars, funVars, fileVars, vcsVars, enumVars>>

NextChain == ChainRun

SpecChain == InitChain /\ [][NextChain]_vars

(***************************************************************************)
(* Claims about sequences of runs (SpecChain).                             *)
(***************************************************************************)
\* the last run succeeded and was not a dry run
k_stored == k_runs >= 1 /\ k_new.ok /\ ~k_dry_run

s_chooser_called == s_pc \in {"chosen", "serialized", "parsed_back"}

\* the template references a key that is neither a part of the version nor a
\* key of the context
LacksKey(serialize_format) ==
    ~(SeqToSet(labels_for_format(serialize_format))
          \subseteq ValueKeys(s_version, s_context))

s_missing_value ==
    ~s_chosen.ok /\ s_chosen.val = "MissingValueForSerializationException"

\* C22: when every configured template references a key absent from the
\* context the chooser raises missing-value; a template with a missing value
\* is never reported incomplete and is never the chosen template.
C22_MissingValueSurfaced ==
    s_chooser_called =>
        /\ (\A t \in s_formats : LacksKey(t)) => s_missing_value
        /\ \A t \in s_formats :
              LacksKey(t) =>
                  /\ ~Complete(t)
                  /\ VersionConfig_serialize_(s_vc, s_version, t, s_context, TRUE).val
                         # "IncompleteVersionRepresentationException"
                  /\ ~(s_chosen.ok /\ s_chosen.val = t)

\* C22: two templates of a bumped version: the first names the environment
\* key, which the context does not hold, the second a part that the bump has
\* dropped; the chooser has raised missing-value.
C22_Witness ==
    /\ s_chooser_called
    /\ Len(s_vc.serialize_formats) = 2
    /\ \A t \in s_formats : LacksKey(t)
    /\ EnvLabel \in SeqToSet(labels_for_format(s_vc.serialize_formats[1]))
    /\ "patch" \in SeqToSet(labels_for_format(s_vc.serialize_formats[2]))
    /\ s_context = <<>>
    /\ s_missing_value

\* C30: when any one configured template references a key absent from the
\* context, whatever its position, the chooser raises missing-value and
\* chooses no template, even if another template is complete.
C30_AnyMissingFails ==
    s_chooser_called =>
        ((\E i \in DOMAIN s_vc.serialize_formats : LacksKey(s_vc.serialize_formats[i]))
            => s_missing_value)

\* C30: the first template is complete, the last one references an absent
\* key; the chooser has raised missing-value.
C30_Witness ==
    /\ s_chooser_called
    /\ Len(s_vc.serialize_formats) = 3
    /\ Complete(s_vc.serialize_formats[1])
    /\ ~LacksKey(s_vc.serialize_formats[2])
    /\ LacksKey(s_vc.serialize_formats[3])
    /\ s_missing_value

(***************************************************************************)
(* Claims about a path configured more than once, checked under Spec.      *)
(***************************************************************************)
\* some path is the path of two entries of the list
SamePathTwice ==
    \E i, j \in 1..Len(r_files) : i < j /\ r_files[i].path = r_files[j].path

\* the entry at index i shares its path with another entry
SharesPath(i) ==
    \E j \in 1..Len(r_files) : j # i /\ r_files[j].path = r_files[i].path

\* the replace expression of the entry at index i: its replace template with
\* the current and the new version serialized under the entry's own config
ReplaceExpression(i) ==
    LET Expanded(current, new) ==
            IF ~current.ok THEN current
            ELSE IF ~new.ok THEN new
            ELSE FormatContext(r_files[i]._versionconfig.replace,
                     ("current_version" :> current.val)
                         @@ ("new_version" :> new.val))
    IN  Expanded(VersionConfig_serialize(r_files[i]._versionconfig, r_current, <<>>),
                 VersionConfig_serialize(r_files[i]._versionconfig, r_new, <<>>))

\* the disk after the rewrites of the first i entries, applied in list order
\* to the disk as it was before the run
RECURSIVE DiskAfter(_)
DiskAfter(i) ==
    IF i = 0 THEN r_disk0
    ELSE ConfiguredFile_replace(DiskAfter(i - 1), r_files[i], r_current, r_new,
                                <<>>, FALSE).disk

\* the text read from the file of entry i
TextOf(disk, i) == TranslateNewlines(disk[r_files[i].path])

\* every entry was verified against the content before the run, and the
\* disk is the result of the rewrites in list order
VerifiedThenRewrittenInOrder ==
    /\ r_verified = Len(r_files)
    /\ \A i \in 1..Len(r_files) : HoldsVersion(i)
    /\ r_disk = DiskAfter(Len(r_files))

\* C23 (as stated): at the end of a run that lists a path more than once,
\* every entry was verified against the original content, the rewrites were
\* applied in list order, each on the content the previous one left, and the
\* file holds the replace expression of every entry of that path.
C23_EveryEntryApplied ==
    (SamePathTwice /\ r_pc = "done" /\ ~r_dry_run) =>
        /\ VerifiedThenRewrittenInOrder
        /\ \A i \in 1..Len(r_files) :
              SharesPath(i) =>
                  \E replace_with \in {ReplaceExpression(i)} :
                      /\ replace_with.ok
                      /\ IsSubstring(replace_with.val, TextOf(r_disk, i))

\* the content left by the entries before entry i holds text that the
\* rewrite of entry i replaces: its search expression (in pyproject.toml,
\* in a line version = "search_expr") or the original current version
FindsItsText(i) ==
    \E search_for \in {SearchExpression(i)} :
        /\ search_for.ok
        /\ \/ IF PathName(r_files[i].path) = "pyproject.toml"
              THEN \E line \in SeqToSet(FileLines(DiskAfter(i - 1)[r_files[i].path])) :
                      AssignmentLine(line, search_for.val, PatternAt)
              ELSE IsSubstring(search_for.val, TextOf(DiskAfter(i - 1), i))
           \/ IsSubstring(r_current.original, TextOf(DiskAfter(i - 1), i))

\* C23 (amended): at the end of a run that lists a path more than once,
\* every entry was verified against the original content and the rewrites
\* were applied in list order, each on the content the previous one left.
\* Right after its own rewrite the file holds an entry's replace expression
\* when the content left by the entries before it holds text the entry
\* replaces; otherwise the entry changes nothing.  (A later entry may
\* rewrite that text again.)
C23_EveryEntryAppliedAmended ==
    (SamePathTwice /\ r_pc = "done" /\ ~r_dry_run) =>
        /\ VerifiedThenRewrittenInOrder
        /\ \A i \in 1..Len(r_files) :
              SharesPath(i) =>
                  IF FindsItsText(i)
                  THEN \E replace_with \in {ReplaceExpression(i)} :
                          /\ replace_with.ok
                          /\ IsSubstring(replace_with.val, TextOf(DiskAfter(i), i))
                  ELSE DiskAfter(i) = DiskAfter(i - 1)

\* C23: the version file with a dotted and a dashed line is listed twice,
\* with the dotted and with the dashed config; at the end of the run it holds
\* both new versions.
C23_Witness ==
    /\ r_pc = "done"
    /\ ~r_dry_run
    /\ Len(r_files) = 2
    /\ r_files[1] = ConfiguredFile("VERSION", RunConfig)
    /\ r_files[2] = ConfiguredFile("VERSION",
                        FileConfig(DashedFormat, DefaultSearch, DefaultReplace))
    /\ r_part = "minor"
    /\ r_disk0["VERSION"] = <<"1", ".", "1", "\r", "\n", "1", "-", "1", "\r", "\n">>
    /\ r_disk["VERSION"] = <<"1", ".", "2", "\r", "\n", "1", "-", "2", "\r", "\n">>

(***************************************************************************)
(* Claims about a dry run, checked under Spec.                             *)
(***************************************************************************)
\* C17: in dry-run mode replace never writes: at every point of a dry run,
\* whether it goes on, ends or fails, every configured file and the
\* configuration file have the content they had before the run, and no
\* commit and no tag has been made.
C17_DryRunWritesNothing ==
    r_dry_run =>
        /\ r_disk = r_disk0
        /\ r_config = r_config0
        /\ r_vcs_calls = <<>>

\* C17 witness: a dry run with commit and tag configured ended; run for
\* real, its rewrites change a file and the new version differs from the
\* stored one; the files and the configuration file are as they were and
\* nothing was committed or tagged.
C17_Witness ==
    /\ r_pc = "done" /\ r_dry_run
    /\ r_commit /\ r_tag
    /\ Len(r_files) >= 1
    /\ DiskAfter(Len(r_files)) # r_disk0
    /\ VersionConfig_serialize(r_vc, r_new, <<>>).val # r_config0
    /\ r_disk = r_disk0
    /\ r_config = r_config0
    /\ r_vcs_calls = <<>>

(***************************************************************************)
(* Claims about a rewrite that fails, checked under Spec.                  *)
(***************************************************************************)
\* the run ended in the rewrite of the file at index r_i, after every file
\* had passed pre-flight
RewriteFailed ==
    /\ r_pc = "failed"
    /\ Len(r_files) >= 1
    /\ r_verified = Len(r_files)
    /\ ~r_dry_run

\* the paths of the entries before index k
PathsBefore(k) == {r_files[i].path : i \in 1..(k - 1)}

\* C24: when the rewrite of the k-th file raises after pre-flight succeeded,
\* the run ends with that exception, the files before k have the content
\* their rewrites gave them, the k-th file and the files after it have the
\* content they had before the run, and the configuration file's
\* current_version is not written.
C24_NoRollback ==
    RewriteFailed =>
        /\ r_error # ""
        /\ r_error = ConfiguredFile_replace(DiskAfter(r_i - 1), r_files[r_i],
                         r_current, r_new, <<>>, FALSE).val
        /\ r_disk = DiskAfter(r_i - 1)
        /\ \A j \in r_i..Len(r_files) :
              r_files[j].path \notin PathsBefore(r_i)
                  => r_disk[r_files[j].path] = r_disk0[r_files[j].path]
        /\ r_config = r_config0

\* C24: the version file is rewritten, then the replace template of the
\* readme names a key the context lacks; the version file holds the new
\* version, the readme and the configuration file are as before the run.
C24_Witness ==
    /\ RewriteFailed
    /\ r_i = 2
    /\ r_error = "KeyError"
    /\ r_files[1].path = "VERSION"
    /\ r_files[2].path = "README"
    /\ r_disk0["VERSION"] = <<"1", ".", "1", "\n">>
    /\ r_disk["VERSION"] = <<"1", ".", "2", "\n">>
    /\ r_disk["README"] = r_disk0["README"]
    /\ r_config = Str_1_1

(***************************************************************************)
(* Claims about the Version returned by bump, checked under SpecBump.      *)
(***************************************************************************)
\* the part is carried by bump: it is not the bumped part and is not reset
Carried(label) ==
    /\ label # b_part_name
    /\ OrderedBefore(label, b_part_name) \/ is_independent(b_old[label])

\* C25: every part of the Version returned by bump has the schema (the
\* config: first_value, optional_value, independent flag, bump function) of
\* the same-named part of the input, and a carried part reports the same
\* value and the same is_optional() as before the bump.
C25_SchemaRetention ==
    b_returned =>
        \A label \in DOMAIN b_new :
            /\ b_new[label].config = b_old[label].config
            /\ Carried(label) =>
                   /\ PartValue(b_new[label]) = PartValue(b_old[label])
                   /\ is_optional(b_new[label]) = is_optional(b_old[label])

\* the two versions have the same part names, in the same order, the same
\* part values and the same original string
SameVersion(v, w) ==
    /\ v.keys = w.keys
    /\ DOMAIN v._values = DOMAIN w._values
    /\ \A label \in DOMAIN v._values :
          /\ v._values[label]._value = w._values[label]._value
          /\ PartValue(v._values[label]) = PartValue(w._values[label])
    /\ v.original = w.original

\* C27: a call of bump, whether it returns a new Version or raises
\* unknown-part or terminal-value, leaves the input version with the part
\* names, the part values and the original string it had before the call.
C27_InputNotMutated ==
    [][b_done' => SameVersion(b_version, b_version')]_vars

\* C27: bump has returned a Version whose bumped part differs from the
\* input's, and the input was parsed from a string.
C27_Witness ==
    /\ b_returned
    /\ b_version.original # None
    /\ HasPart(b_version, b_part_name)
    /\ PartValue(b_new[b_part_name]) # PartValue(b_old[b_part_name])

\* the labels of the ordering that are parts of the input, in ordering order
OrderedParts ==
    LET IsPart(label) == HasPart(b_version, label)
    IN  SelectSeq(b_order, IsPart)

\* C28: the Version returned by bump holds exactly the parts of the input
\* whose names occur in the ordering, in ordering order; a part of the input
\* that the ordering does not name is not in the result; and every part name
\* of the result is a capture-group name of the schema regex.
C28_ResultParts ==
    b_returned =>
        /\ b_result.val.keys = OrderedParts
        /\ DOMAIN b_new = SeqToSet(OrderedParts)
        /\ \A label \in DOMAIN b_old :
              ~InSeq(b_order, label) => label \notin DOMAIN b_new
        /\ \E schema \in Schemas :
              /\ DOMAIN b_old = SeqToSet(GroupNames(schema.regex))
              /\ DOMAIN b_new \subseteq SeqToSet(GroupNames(schema.regex))

\* C28: the ordering names two parts of the input, the later one first, and
\* the environment key; a third part of the input is not named, and the
\* result holds the two named parts in ordering order.
C28_Witness ==
    /\ b_returned
    /\ b_order = <<"minor", EnvLabel, "major">>
    /\ HasPart(b_version, "patch")
    /\ b_version.keys = <<"major", "minor", "patch">>
    /\ b_result.val.keys = <<"minor", "major">>

(***************************************************************************)
(* SpecEnum: an enumerated part configuration is constructed from every    *)
(* value list, optional_value and first_value, and its first bump is taken. *)
(***************************************************************************)
\* a value given for optional_value or first_value: not given, a name the
\* lists can hold, the empty string, or a name no list holds
GivenValues == {None, <<>>, <<"x">>} \cup ValueNames

InitEnum ==
    /\ e_values \in StringsOver(ValueNames, MaxValues)
    /\ e_optional_value \in GivenValues
    /\ e_first_value \in GivenValues
    /\ e_independent \in BOOLEAN
    /\ e_result = NoResult
    /\ e_done = FALSE
    /\ BumpIdle
    /\ SerIdle
    /\ RunIdle
    /\ FunIdle
    /\ FileIdle
    /\ VcsIdle
    /\ ChainIdle

EnumConstruct ==
    /\ ~e_done
    /\ e_result' = ValuesFunction_init(e_values, e_optional_value, e_first_value,
                                       e_independent)
    /\ e_done' = TRUE
    /\ UNCHANGED <<e_values, e_optional_value, e_first_value, e_independent,
                   bumpVars, serVars, runVars, funVars, fileVars, vcsVars, chainVars>>

NextEnum == EnumConstruct

SpecEnum == InitEnum /\ [][NextEnum]_vars

\* the value taken for an argument: the first list element when not given
Defaulted(value) == IF value = None THEN e_values[1] ELSE value

\* C26: the construction of an enumerated configuration succeeds exactly
\* when the value list is not empty and first_value and optional_value, each
\* the first list element when not given, are elements of the list; then the
\* configuration holds the list and the two values; otherwise the
\* construction raises the configuration error and there is no configuration.
C26_EnumeratedConstruction ==
    e_done =>
        LET valid == /\ e_values # <<>>
                     /\ \E i \in 1..Len(e_values) : e_values[i] = Defaulted(e_first_value)
                     /\ \E i \in 1..Len(e_values) : e_values[i] = Defaulted(e_optional_value)
        IN  /\ e_result.ok <=> valid
            /\ valid =>
                  /\ e_result.val.function_cls = "ValuesFunction"
                  /\ e_result.val.values = e_values
                  /\ e_result.val.first_value = Defaulted(e_first_value)
                  /\ e_result.val.optional_value = Defaulted(e_optional_value)
            /\ ~valid => ~e_result.ok /\ e_result.val \in {"ValueError: values empty",
                                                            "ValueError: optional value",
                                                            "ValueError: first value"}

\* C26: the optional value is an element of the list, the first value is
\* given and is not; the construction raised the configuration error.
C26_Witness ==
    /\ e_done
    /\ e_values = <<dev, gamma>>
    /\ e_optional_value = gamma
    /\ e_first_value = <<"r", "c">>
    /\ ~e_result.ok
    /\ e_result.val = "ValueError: first value"

(***************************************************************************)
(* SpecRewrite: one file is verified by should_contain_version and, when   *)
(* the verification succeeds, rewritten by replace.                        *)
(***************************************************************************)
Str_1_1_0 == Str_1_1 \o <<".", "0">>

\* the search and replace templates of two lines: the version, then #
TwoLineSearch == <<Tok(<<>>, "current_version"), Tok(<<"\n", "#">>, NoField)>>
TwoLineReplace == <<Tok(<<>>, "new_version"), Tok(<<"\n", "#">>, NoField)>>

\* the configured files: the version file with the default templates and
\* with templates of two lines, pyproject.toml with the dotted and with the
\* dashed serialization, the readme searched for v{current_version}, and a
\* file that does not exist
RewriteFiles ==
    {ConfiguredFile("VERSION", RunConfig),
     ConfiguredFile("VERSION", FileConfig(DottedFormat, TwoLineSearch, TwoLineReplace)),
     ConfiguredFile("pyproject.toml", RunConfig),
     ConfiguredFile("pyproject.toml",
         FileConfig(DashedFormat, DefaultSearch, DefaultReplace)),
     ConfiguredFile("README",
         FileConfig(DottedFormat, <<Tok(<<"v">>, "current_version")>>,
                    <<Tok(<<"v">>, "new_version")>>)),
     ConfiguredFile("missing.txt", RunConfig)}

\* what each path can hold before the calls
RewriteContents(path) ==
    CASE path = "VERSION" ->
            {<<"1", ".", "1", "\n">>,
             <<"1", ".", "1", "\n", "#", "\n">>,
             <<"1", ".", "1", " ", "\n", "#", "\n">>,
             <<"1", ".", "1", "#", "\n">>,
             <<"1", ".", "1", ".", "0", "\r", "\n">>}
      [] path = "pyproject.toml" ->
            {<<"v", "e", "r", "s", "i", "o", "n", " ", "=", " ",
               "\"", "1", ".", "1", "\"", "\n">>,
             <<"d", "e", "p", " ", "=", " ", "'", "1", ".", "1", "'", "\n">>,
             <<"v", "e", "r", "s", "i", "o", "n", " ", "=", " ",
               "\"", "1", "-", "1", "\"", "\n">>,
             <<"d", "e", "p", " ", "=", " ", "\"", "1", "-", "1", "\"", "\n">>}
      [] OTHER -> RunContents(path)

RewriteDisks == {disk \in [Paths -> UNION {RewriteContents(p) : p \in Paths}] :
                    \A p \in Paths : disk[p] \in RewriteContents(p)}

\* the current_version of the configuration file: 1.1, or 1.1.0, which the
\* configured template serializes as 1.1
RewriteCurrentVersions == {Str_1_1, Str_1_1_0}

InitRewrite ==
    /\ u_self \in RewriteFiles
    /\ u_disk \in RewriteDisks
    /\ u_disk0 = u_disk
    /\ u_search = None
    /\ u_dry_run \in BOOLEAN
    /\ \E str \in RewriteCurrentVersions, part \in FileParts :
          /\ u_current = VersionConfig_parse(RunConfig, str).val
          /\ u_new = Version_bump(u_current, part, VersionConfig_order(RunConfig)).val
    /\ u_context = <<>>
    /\ u_op = "none"
    /\ u_result = NoResult
    /\ BumpIdle
    /\ SerIdle
    /\ RunIdle
    /\ FunIdle
    /\ VcsIdle
    /\ ChainIdle
    /\ EnumIdle

\* pre-flight: self.should_contain_version(current_version, context)
RewriteVerify ==
    /\ u_op = "none"
    /\ u_op' = "should_contain_version"
    /\ \E checked \in {ConfiguredFile_should_contain_version(
                             u_disk, u_self, u_current, u_context)} :
          /\ u_result' = [ok |-> checked.ok, val |-> checked.val]
          /\ u_context' = checked.context
    /\ u_disk' = DiskAfterRead(u_disk, u_self.path)
    /\ UNCHANGED <<u_self, u_disk0, u_search, u_current, u_new, u_dry_run,
                   bumpVars, serVars, runVars, funVars, vcsVars, chainVars, enumVars>>

\* the rewrite of a verified file: self.replace(current_version,
\* new_version, context, dry_run)
RewriteReplace ==
    /\ u_op = "should_contain_version"
    /\ u_result.ok
    /\ u_op' = "replace"
    /\ \E replaced \in {ConfiguredFile_replace(
                              u_disk, u_self, u_current, u_new, u_context,
                              u_dry_run)} :
          /\ u_result' = [ok |-> replaced.ok, val |-> replaced.val]
          /\ u_context' = replaced.context
          /\ u_disk' = replaced.disk
    /\ UNCHANGED <<u_self, u_disk0, u_search, u_current, u_new, u_dry_run,
                   bumpVars, serVars, runVars, funVars, vcsVars, chainVars, enumVars>>

NextRewrite == RewriteVerify \/ RewriteReplace

SpecRewrite == InitRewrite /\ [][NextRewrite]_vars

\* should_contain_version succeeds on the file as it was before the calls
u_verified ==
    ConfiguredFile_should_contain_version(u_disk0, u_self, u_current, <<>>).ok

\* C29: for a file that should_contain_version accepts and whose expanded
\* search and replace expressions differ, replace (not a dry run) returns,
\* the content of the file differs from the content before the call and
\* contains the replace expression.
C29_EffectiveRewrite ==
    (/\ u_op = "replace"
     /\ ~u_dry_run
     /\ u_verified
     /\ u_search_expression.ok
     /\ u_replace_with.ok
     /\ u_search_expression.val # u_replace_with.val)
        => /\ u_result.ok
           /\ u_after # u_before
           /\ IsSubstring(u_replace_with.val, u_after)

====
